---- MODULE Spec2Model ----
(***************************************************************************)
(* Model of the trading bot: the order-lifecycle orchestrator              *)
(* (trader.mjs), the signal engine's order-status transitions              *)
(* (strategies/RsiOverSma.mjs), the per-campaign loop (index.mjs) and the  *)
(* exchange gateway (exchanges/Binance.mjs) seen at its interface.         *)
(*                                                                         *)
(* JavaScript runs one callback at a time, so the code between two awaits  *)
(* is atomic.  Every action below is one awaited request taking effect     *)
(* (a ledger read or write, an exchange call, a timer) followed by the     *)
(* synchronous code that runs until the next request is issued.  Detached  *)
(* calls (watchOrderTillFill without await, setTimeout, emitter callbacks) *)
(* become new tasks.  Amounts of money are in tenths of the quote          *)
(* currency, amounts of coins in lots.                                     *)
(***************************************************************************)
EXTENDS Integers, Sequences, FiniteSets, Bags, TLC

VARIABLES
    exch,     \* exchange: sequence of order requests, index = orderId
    held,     \* exchange: coins of the base asset in the account
    orders,   \* ledger: bag of Order records
    trades,   \* ledger: bag of Trade records
    events,   \* ledger: number of Event records per action
    camp,     \* ledger: the Campaign record
    strat,    \* sequence of Strategy objects, one per (re)start of the loop
    tasks,    \* bag of running async calls (the loop, watchers, sell paths)
    subs,     \* set of armed stop-loss listeners on the price emitter
    fired,    \* history: per listener id, how often it invoked handleSell
    applied,  \* history: bag of orders whose balance update was written
    ACTIVE_CAMPAIGNS,  \* index.mjs: ids of the campaigns whose loop was started
    started,  \* history: how often watchCampaigns called handleCampaign
    unhandled,  \* history: a promise was rejected with nobody awaiting it
    out,      \* the last call made on the Strategy object and what it returned
    closed    \* history: orders of round trips closed before the first state

vars == <<exch, held, orders, trades, events, camp, strat, tasks, subs, fired, applied,
          ACTIVE_CAMPAIGNS, started, unhandled, out, closed>>

----------------------------------------------------------------------------
(* Bounds of the model *)

MaxOrders == 3      \* order requests sent to the exchange after those in closed
MaxGen == 1         \* Strategy objects created (starts of the campaign loop)
MaxSubs == 2        \* stop-loss listeners ever armed
MaxTasks == 3       \* async calls alive at the same time
MaxEvents == 2      \* Event records
MaxStarts == 2      \* calls of handleCampaign made by watchCampaigns

(* Program constants *)

MinBalance == 105          \* trader.mjs:218, 10.5 in tenths
RSI_UPPER_BAND == 600      \* RsiOverSma.mjs:6, RSI values in tenths
RSI_LOWER_BAND == 350      \* RsiOverSma.mjs:7
CROSS_OVER_THRESHOLD == 5  \* RsiOverSma.mjs:10, 0.5
MINIMUM_PROFIT == 50       \* RsiOverSma.mjs:11, 0.5 % in hundredths of a percent
RISK_REWARD == <<10, 11>>  \* RsiOverSma.mjs:12, 1 / 1.1 as a fraction
SellMaxRetries == 5        \* trader.mjs:346
WatchMaxRetries == 10      \* trader.mjs:104
MINIMUM_BULLISH_CHANGE == 2  \* RsiOverSma.mjs:13, 2 %

(* Inputs: the campaign the ledger holds at start, the trade plan run()    *)
(* emits, and the price the exchange executes market sells at.             *)

InitialBalance == 210
EntryPrice == 100
TakeProfit == 120
StopLoss == 90
MarketPrice == 80
TickPrices == {StopLoss - 10, StopLoss, StopLoss + 10}

(* Yesterday's candle as the loop reads it at its start: a bullish one     *)
(* whose low and high give ThePlan, and a bearish one                      *)
PriorDay ==
    {[open |-> StopLoss + 1, high |-> TakeProfit + 1, low |-> StopLoss + 1,
      close |-> TakeProfit],
     [open |-> TakeProfit, high |-> TakeProfit + 1, low |-> StopLoss + 1,
      close |-> StopLoss + 1]}

(* NoPlan: a plan whose fields are undefined ({} or an unset tradePlan);    *)
(* NullPlan: tradePlan set to null                                         *)
NoPlan == [entryPrice |-> 0, takeProfit |-> 0, stopLoss |-> 0]
NullPlan == [entryPrice |-> -1, takeProfit |-> -1, stopLoss |-> -1]
ThePlan == [entryPrice |-> EntryPrice, takeProfit |-> TakeProfit, stopLoss |-> StopLoss]

NoOrder == [oid |-> 0, cid |-> 0, side |-> "none", status |-> "none",
            amt |-> 0, exe |-> 0, total |-> 0]

(* What a call of run() reads: where the newest candle lies in time, the   *)
(* indicator values of the last two candles (in tenths), the bullish       *)
(* candle's low and high and the newest candle (prices in ticks)           *)
NoFeed == [phase |-> "none", rsi |-> 0, prevRsi |-> 0, sma |-> 0, prevSma |-> 0,
           support |-> 0, resistance |-> 0, high |-> 0, low |-> 0, close |-> 0]

(* A daily candle (prices in ticks) *)
NoCandle == [open |-> 0, high |-> 0, low |-> 0, close |-> 0]

(* No call was made on the Strategy object yet *)
NoOut == [op |-> "none", was |-> "none", side |-> "none", status |-> "none",
          action |-> "none", reason |-> "none", plan |-> NullPlan,
          feed |-> NoFeed, candle |-> NoCandle]

----------------------------------------------------------------------------
(* The state as one record, so that a step can be written as a function    *)
(* from state to state and steps can be composed.                          *)

W == [exch |-> exch, held |-> held, orders |-> orders, trades |-> trades,
      events |-> events, camp |-> camp, strat |-> strat, tasks |-> tasks,
      subs |-> subs, fired |-> fired, applied |-> applied,
      ACTIVE_CAMPAIGNS |-> ACTIVE_CAMPAIGNS, started |-> started,
      unhandled |-> unhandled, out |-> out, closed |-> closed]

(* The bounds: a step that would exceed one is not taken *)
WithinBounds(w) ==
    /\ Len(w.exch) <= MaxOrders + w.closed
    /\ Len(w.strat) <= MaxGen
    /\ Len(w.fired) <= MaxSubs
    /\ BagCardinality(w.tasks) <= MaxTasks
    /\ BagCardinality(w.events) <= MaxEvents
    /\ w.started <= MaxStarts

Apply(w) ==
    /\ WithinBounds(w)
    /\ exch' = w.exch
    /\ held' = w.held
    /\ orders' = w.orders
    /\ trades' = w.trades
    /\ events' = w.events
    /\ camp' = w.camp
    /\ strat' = w.strat
    /\ tasks' = w.tasks
    /\ subs' = w.subs
    /\ fired' = w.fired
    /\ applied' = w.applied
    /\ ACTIVE_CAMPAIGNS' = w.ACTIVE_CAMPAIGNS
    /\ started' = w.started
    /\ unhandled' = w.unhandled
    /\ out' = w.out
    /\ closed' = w.closed

One(e) == SetToBag({e})

(* A task: one async call chain.  pc is the request it is waiting for, ret *)
(* the continuations of its callers, the rest are the locals the code      *)
(* keeps across awaits.                                                    *)
NewTask(kind, pc, st) ==
    [k |-> kind, pc |-> pc, ret |-> <<>>, st |-> st, oid |-> 0, pay |-> NoPlan,
     retry |-> 1, ord |-> NoOrder, ao |-> NoOrder, cao |-> NoOrder,
     bal |-> 0, pl |-> 0, past |-> EmptyBag, act |-> "none"]

Put(w, t) == [w EXCEPT !.tasks = @ (+) One(t)]

Take(w, t) == [w EXCEPT !.tasks = @ (-) One(t)]

----------------------------------------------------------------------------
(* Exchange gateway (exchanges/Binance.mjs) *)

(* Coins locked in open sell orders *)
RECURSIVE Locked(_, _)
Locked(ex, n) ==
    IF n = 0 THEN 0
    ELSE Locked(ex, n - 1) +
         (IF ex[n].side = "sell" /\ ex[n].status = "placed"
          THEN ex[n].amt - ex[n].exe ELSE 0)

Free(w) == w.held - Locked(w.exch, Len(w.exch))

(* _structureOrder: the order as getOrder and the order calls return it.   *)
(* total is set only when the order has trades, and is computed from the   *)
(* order amount.                                                           *)
structureOrder(ex, o) ==
    [oid |-> o, cid |-> ex[o].cid, side |-> ex[o].side, status |-> ex[o].status,
     amt |-> ex[o].amt, exe |-> ex[o].exe,
     total |-> IF ex[o].exe > 0 THEN ex[o].price * ex[o].amt ELSE 0]

(* normalizeResponse('order', ...): what cancelOrder returns, no total *)
normalizeResponse(ex, o) ==
    [oid |-> o, cid |-> ex[o].cid, side |-> ex[o].side, status |-> ex[o].status,
     amt |-> ex[o].amt, exe |-> ex[o].exe, total |-> 0]

(* normalizeResponse('order-error', ...): a rejected request comes back as *)
(* a cancelled order without orderId                                       *)
orderError(side, amt, cid) ==
    [oid |-> 0, cid |-> cid, side |-> side, status |-> "cancelled",
     amt |-> amt, exe |-> 0, total |-> 0]

getBinanceOrder(w, o) == structureOrder(w.exch, o)

(* _order: the exchange rejects an empty order, an order without price and *)
(* a sell of coins the account does not have free.  A market order fills   *)
(* at once; a limit or stop-limit order rests, or (imm) is filled by the   *)
(* time the response is read.  Yields the new exchange and the response.   *)
(* The quote funds of the account are not what limits a buy: the campaign  *)
(* balance is a ledger figure, and the account is shared by the campaigns. *)
order(w, side, type, amt, price, cid, imm) ==
    LET o == Len(w.exch) + 1
        rejected == \/ amt <= 0
                    \/ type # "market" /\ price <= 0
                    \/ side = "sell" /\ amt > Free(w)
        fills == type = "market" \/ imm
        entry == [side |-> side, type |-> type, cid |-> cid, amt |-> amt,
                  price |-> IF type = "market" THEN MarketPrice ELSE price,
                  exe |-> IF rejected \/ ~fills THEN 0 ELSE amt,
                  status |-> IF rejected THEN "rejected"
                             ELSE IF fills THEN "filled" ELSE "placed"]
        ex == Append(w.exch, entry)
        h == IF rejected \/ ~fills THEN w.held
             ELSE IF side = "buy" THEN w.held + amt ELSE w.held - amt
    IN  [w |-> [w EXCEPT !.exch = ex, !.held = h],
         order |-> IF rejected THEN orderError(side, amt, cid)
                   ELSE structureOrder(ex, o)]

(* quotePercision with a lot size of one coin: floor *)
quotePercision(num, den) == num \div den

(* buyStopLimitOrder: 0.1% of the balance is kept for fees; the client     *)
(* order id is fresh                                                       *)
buyStopLimitOrder(w, balance, limitPrice, imm) ==
    order(w, "buy", "stop",
          IF limitPrice > 0
          THEN quotePercision(balance * 999, 1000 * limitPrice) ELSE 0,
          limitPrice, Len(w.exch) + 1, imm)

sellLimitOrder(w, amount, clientOrderId, limitPrice, imm) ==
    order(w, "sell", "limit", amount, limitPrice, clientOrderId, imm)

sellMarketOrder(w, amount, clientOrderId) ==
    order(w, "sell", "market", amount, 0, clientOrderId, FALSE)

----------------------------------------------------------------------------
(* Signal engine (strategies/RsiOverSma.mjs) *)

(* The constructor: support and resistance are null (-1), so is reason *)
NewStrategy ==
    [nextAction |-> "wait_buy_signal", done |-> FALSE, reason |-> "null",
     support |-> -1, resistance |-> -1, tradePlan |-> NullPlan]

(* Variant: every candle that closes at or above its open counts as bullish *)
getBullishCandle_anyChange(c) ==
    IF c.close >= c.open THEN c ELSE NoCandle

(* getBullishCandle: yesterday's candle when it is bullish, undefined      *)
(* (NoCandle) otherwise.  candleChange = (high - low) / high * 100 is      *)
(* compared with MINIMUM_BULLISH_CHANGE.                                   *)
getBullishCandle(c) ==
    IF c.close >= c.open /\ 100 * (c.high - c.low) > MINIMUM_BULLISH_CHANGE * c.high
    THEN c ELSE NoCandle

(* init() on the Strategy s when the exchange answers with the candle c *)
init(s, c) ==
    LET bullishCandle == getBullishCandle(c)
    IN  IF bullishCandle # NoCandle
        THEN [s EXCEPT !.support = bullishCandle.low,
                       !.resistance = bullishCandle.high]
        ELSE [s EXCEPT !.done = TRUE, !.reason = "No bullish candle"]

(* Variant: a cancelled sell takes the engine back to the buy signal *)
setOrderStatus_sellCancelled(side, status) ==
    IF side \in {"buy", "undefined"}
    THEN CASE status \in {"placed", "undefined"} -> "wait_for_entry"
           [] status = "filled" -> "wait_for_sell_order"
           [] status = "cancelled" -> "wait_buy_signal"
           [] OTHER -> "error"
    ELSE CASE status \in {"placed", "undefined"} -> "wait_for_exit"
           [] status \in {"filled", "cancelled"} -> "wait_buy_signal"
           [] OTHER -> "error"

(* setOrderStatus: the next action for a (side, status) pair, "error" when *)
(* the code throws.  An argument that is undefined takes its default       *)
(* (side = 'buy', status = 'placed'); every side other than 'buy' takes    *)
(* the else branch.                                                        *)
setOrderStatus(side, status) ==
    LET sd == IF side = "undefined" THEN "buy" ELSE side
        st == IF status = "undefined" THEN "placed" ELSE status
    IN  IF sd = "buy"
        THEN CASE st = "placed" -> "wait_for_entry"
               [] st = "filled" -> "wait_for_sell_order"
               [] st = "cancelled" -> "wait_buy_signal"
               [] OTHER -> "error"
        ELSE CASE st \in {"placed", "cancelled"} -> "wait_for_exit"
               [] st = "filled" -> "wait_buy_signal"
               [] OTHER -> "error"

canRun(s) == ~s.done

(* percision(price, step) = Math.floor(price * 10^p) / 10^p on binary      *)
(* doubles, for a tick size of 0.1 and prices given in ticks.  A sum or    *)
(* difference of two doubles can lie just below the decimal value, and the *)
(* floor then yields one tick less: 0.7 + 0.1 = 0.7999999999999999 gives   *)
(* 0.7, 1.2 - 0.1 = 1.0999999999999999 gives 1.0.  The two sets list the   *)
(* prices up to 20 ticks (the prices the feeds below use lie there or are  *)
(* one of 1000, 1010, 1100) for which that happens.                        *)
AddTickLoss == {7}
SubTickLoss == {3, 12, 14, 17}

(* pricePercision(pair, price + tickSize) and (pair, price - tickSize) *)
plusTick(price) == price + 1 - (IF price \in AddTickLoss THEN 1 ELSE 0)

minusTick(price) == price - 1 - (IF price \in SubTickLoss THEN 1 ELSE 0)

(* run(), state wait_buy_signal: the tests on the indicators *)
rsiInRange(f) == f.rsi > RSI_LOWER_BAND /\ f.rsi < RSI_UPPER_BAND

(* Variant: the previous candle is not looked at *)
rsiCrossedOver_noPrev(f) == f.rsi - f.sma > CROSS_OVER_THRESHOLD

rsiCrossedOver(f) ==
    /\ f.rsi - f.sma > CROSS_OVER_THRESHOLD
    /\ f.prevRsi - f.prevSma < CROSS_OVER_THRESHOLD

(* run(): entryPrice, the entry tests, possibleProfit (rounded to two      *)
(* decimals, here in hundredths of a percent), takeProfit and stopLoss.    *)
(* The comparisons are made on the floored entryPrice.  risk is            *)
(* entryPrice - (takeProfit - entryPrice) * RISK_REWARD; its floor is      *)
(* exact as long as takeProfit - entryPrice is no multiple of 11 ticks.    *)
entryPriceOf(f) == plusTick(f.high)

validEntry(f) ==
    /\ rsiInRange(f)
    /\ rsiCrossedOver(f)
    /\ entryPriceOf(f) > f.support + 1
    /\ entryPriceOf(f) < f.resistance - 1

possibleProfit(f) ==
    (2 * 10000 * (f.resistance - 2 - f.high) + f.close) \div (2 * f.close)

takeProfitOf(f) == minusTick(f.resistance)

(* Variant: the reward distance is multiplied by 1.1 instead of 1 / 1.1 *)
stopLossOf_inverse(f) ==
    LET risk10 == 10 * entryPriceOf(f)
                    - RISK_REWARD[2] * (takeProfitOf(f) - entryPriceOf(f))
    IN  IF 10 * (f.support - 1) >= risk10
        THEN minusTick(f.support)
        ELSE risk10 \div RISK_REWARD[1]

(* risk = entryPrice - ((takeProfit - entryPrice) * RISK_REWARD) and       *)
(* stopLoss = pricePercision(Math.max(support - tickSize, risk)), computed *)
(* in elevenths of a tick                                                  *)
stopLossOf(f) ==
    LET risk11 == 11 * entryPriceOf(f)
                    - RISK_REWARD[1] * (takeProfitOf(f) - entryPriceOf(f))
    IN  IF 11 * (f.support - 1) >= risk11
        THEN minusTick(f.support)
        ELSE risk11 \div RISK_REWARD[2]

(* The payload of the buy action, which becomes this.tradePlan *)
payloadOf(f) ==
    [entryPrice |-> entryPriceOf(f), takeProfit |-> takeProfitOf(f),
     stopLoss |-> stopLossOf(f)]

(* stopLossReached = low <= stopLoss on this.tradePlan; a null price       *)
(* compares as 0, an undefined one never                                   *)
stopLossReached(s, f) ==
    s.tradePlan.stopLoss > 0 /\ f.low <= s.tradePlan.stopLoss

(* Variant: the high has to pass the take-profit price *)
takeProfitReached_above(s, f) ==
    \/ s.tradePlan.takeProfit = -1
    \/ s.tradePlan.takeProfit > 0 /\ f.high > s.tradePlan.takeProfit

(* takeProfitReached = high >= takeProfit on this.tradePlan *)
takeProfitReached(s, f) ==
    \/ s.tradePlan.takeProfit = -1
    \/ s.tradePlan.takeProfit > 0 /\ f.high >= s.tradePlan.takeProfit

(* The candle tests of run() in the state the strategy is in: the buy      *)
(* signal, or, waiting for the entry, stopLossReached || takeProfitReached *)
signal(s, f) ==
    CASE s.nextAction = "wait_buy_signal" ->
            validEntry(f) /\ possibleProfit(f) > MINIMUM_PROFIT
      [] s.nextAction = "wait_for_entry" ->
            stopLossReached(s, f) \/ takeProfitReached(s, f)
      [] OTHER -> FALSE

----------------------------------------------------------------------------
(* Ledger store *)

SameKey(a, b) ==
    a.status = b.status /\ a.cid = b.cid /\ a.oid = b.oid /\ a.side = b.side

(* Orders.findOne({ status, clientOrderId, orderId, side }) *)
orderExists(w, o) == \E r \in BagToSet(w.orders) : SameKey(r, o)

(* Orders.findOne({ clientOrderId, side, status: 'filled' }) *)
Matching(w, cid, side) ==
    {r \in BagToSet(w.orders) : r.cid = cid /\ r.side = side /\ r.status = "filled"}

findFilled(w, cid, side) ==
    IF Matching(w, cid, side) = {} THEN NoOrder
    ELSE CHOOSE r \in Matching(w, cid, side) :
            \A q \in Matching(w, cid, side) : r.oid <= q.oid

----------------------------------------------------------------------------
(* Detached calls *)

(* watchOrderTillFill(...) called without await; it returns at once when   *)
(* there is no orderId.  An undefined payload defaults to {}.              *)
watchOrderTillFill(w, st, orderId, payload) ==
    IF orderId = 0 THEN w
    ELSE Put(w, [NewTask("watch", "watch_getOrder", st) EXCEPT
                    !.oid = orderId, !.pay = payload])

(* handleStopLoss: arms a listener; an undefined stopLoss never compares   *)
(* true with a price                                                       *)
handleStopLoss(w, st, stopLoss) ==
    [w EXCEPT !.subs = @ \cup {[id |-> Len(w.fired) + 1, st |-> st,
                                 stopLoss |-> stopLoss]},
              !.fired = Append(@, 0)]

(* Variant: the listener stays subscribed after it fired *)
sellOrder_staysSubscribed(w, sub, price) ==
    IF sub.stopLoss > 0 /\ price <= sub.stopLoss
    THEN Put([w EXCEPT !.fired[sub.id] = @ + 1],
             NewTask("sell", "sell_find", sub.st))
    ELSE w

(* The listener sellOrder of handleStopLoss on a price tick *)
sellOrder(w, sub, price) ==
    IF sub.stopLoss > 0 /\ price <= sub.stopLoss
    THEN Put([w EXCEPT !.subs = @ \ {sub}, !.fired[sub.id] = @ + 1],
             NewTask("sell", "sell_find", sub.st))
    ELSE w

----------------------------------------------------------------------------
(* Calls, returns and exceptions of a task *)

Call(t, pc, label) == [t EXCEPT !.pc = pc, !.ret = <<label>> \o @]

Owner(label) ==
    CASE label = "handleBuy" -> "handleBuy"
      [] label = "handleCancel" -> "handleCancel"
      [] label \in {"handleSell", "handleSell_cancel"} -> "handleSell"
      [] label = "handleTakeProfit" -> "handleTakeProfit"
      [] label \in {"watch_update", "watch_tp"} -> "watch"
      [] OTHER -> "loop"

(* setTimeout(() => handleCampaign(campaignId), 1000) *)
LoopRestart(t) == NewTask("loop", "loop_find", t.st)

(* Variant: the watcher gives up one failed attempt earlier *)
watch_catch_early(w, t) ==
    IF t.retry < WatchMaxRetries - 1
    THEN Put(w, [NewTask("watch", "watch_getOrder", t.st) EXCEPT
                    !.oid = t.oid, !.pay = t.pay, !.retry = t.retry + 1])
    ELSE w

(* The catch block of watchOrderTillFill: the next attempt is scheduled    *)
(* with retry + 1 while retry < maxRetries, and nothing is scheduled after *)
(* that                                                                    *)
watch_catch(w, t) ==
    IF t.retry < WatchMaxRetries
    THEN Put(w, [NewTask("watch", "watch_getOrder", t.st) EXCEPT
                    !.oid = t.oid, !.pay = t.pay, !.retry = t.retry + 1])
    ELSE w

RECURSIVE Return(_, _, _), Cont(_, _, _, _), Throw(_, _, _)

(* The awaited callee returned val: run the caller up to its next request *)
Return(w, t, val) ==
    IF t.ret = <<>> THEN w
    ELSE Cont(w, [t EXCEPT !.ret = Tail(@)], Head(t.ret), val)

Cont(w, t, label, val) ==
    CASE label \in {"handleBuy", "handleCancel"} ->
            \* return order
            Return(w, [t EXCEPT !.cao = NoOrder], t.ord)
      [] label = "handleSell" ->
            Return(w, t, t.ord)
      [] label = "handleSell_cancel" ->
            \* handleCancel returned: binance.sellMarketOrder
            Put(w, [t EXCEPT !.pc = "sell_order", !.ord = NoOrder])
      [] label = "handleTakeProfit" ->
            Return(IF t.ord.status = "placed"
                   THEN watchOrderTillFill(w, t.st, t.ord.oid, NoPlan) ELSE w,
                   t, t.ord)
      [] label = "watch_update" ->
            \* handleOrderUpdate returned in watchOrderTillFill
            IF t.ord.side = "buy" /\ t.ord.status = "filled"
            THEN IF t.pay = NullPlan
                 THEN Throw(w, t, "watch")
                 ELSE Put(w, Call(t, "tp_find", "watch_tp"))
            ELSE w
      [] label = "watch_tp" ->
            \* handleTakeProfit returned: handleStopLoss
            handleStopLoss(w, t.st, t.pay.stopLoss)
      [] OTHER ->
            \* the handler returned in handleCampaign: Events.create
            Put(w, [t EXCEPT !.pc = "loop_event", !.ord = val,
                             !.ao = NoOrder, !.retry = 1])

(* An exception propagating in function fn of task t.  handleSell's catch *)
(* schedules the next attempt with setTimeout and returns undefined to its *)
(* caller, or rethrows on the last attempt; the watcher's catch schedules  *)
(* or gives up; the loop's catch goes on to the restart timer.  A call     *)
(* that nobody awaits and that rejects is an unhandled rejection.          *)
Throw(w, t, fn) ==
    CASE fn = "handleSell" ->
            IF t.retry < SellMaxRetries
            THEN Return(Put(w, [NewTask("sell", "sell_find", t.st) EXCEPT
                                   !.retry = t.retry + 1]),
                        t, NoOrder)
            ELSE IF t.ret = <<>> THEN [w EXCEPT !.unhandled = TRUE]
                 ELSE Throw(w, [t EXCEPT !.ret = Tail(@)], Owner(Head(t.ret)))
      [] fn = "watch" -> watch_catch(w, t)
      [] fn = "loop" -> Put(w, LoopRestart(t))
      [] OTHER ->
            IF t.ret = <<>> THEN [w EXCEPT !.unhandled = TRUE]
            ELSE Throw(w, [t EXCEPT !.ret = Tail(@)], Owner(Head(t.ret)))

----------------------------------------------------------------------------
(* handleOrderUpdate, handleCampaignFilledOrder, createTrade (trader.mjs) *)

(* Variant: the order is persisted without looking for an existing record *)
handleOrderUpdate_findOne_noDedup(w, t) ==
    Put(w, [t EXCEPT !.pc = "hou_create"])

(* Orders.findOne by the dedup key *)
handleOrderUpdate_findOne(w, t) ==
    IF orderExists(w, t.ord)
    THEN Return(w, t, NoOrder)
    ELSE Put(w, [t EXCEPT !.pc = "hou_create"])

(* Variant: a cancelled sell goes on to the campaign update as well *)
handleOrderUpdate_create_anyCancelled(w, t) ==
    LET o == t.ord
        next == setOrderStatus(o.side, o.status)
        w1 == [w EXCEPT !.orders = @ (+) One(o)]
    IN  IF next = "error" THEN Throw(w1, t, "handleOrderUpdate")
        ELSE Put([w1 EXCEPT !.strat[t.st].nextAction = next],
                 [t EXCEPT !.pc = "hou_update"])

(* Orders.create, then strategy.setOrderStatus *)
handleOrderUpdate_create(w, t) ==
    LET o == t.ord
        next == setOrderStatus(o.side, o.status)
        w1 == [w EXCEPT !.orders = @ (+) One(o)]
    IN  IF next = "error" THEN Throw(w1, t, "handleOrderUpdate")
        ELSE LET w2 == [w1 EXCEPT !.strat[t.st].nextAction = next]
             IN  IF o.status # "cancelled" \/ o.side = "buy"
                 THEN Put(w2, [t EXCEPT !.pc = "hou_update"])
                 ELSE Return(w2, t, NoOrder)

(* Campaigns.updateOne: activeOrder *)
handleOrderUpdate_updateOne(w, t) ==
    LET o == t.ord
        w1 == IF o.status # "cancelled"
              THEN [w EXCEPT !.camp.activeOrder = o]
              ELSE [w EXCEPT !.camp.activeOrder = NoOrder,
                             !.camp.tradePlan = NullPlan]
    IN  IF o.status = "filled"
        THEN Put(w1, [t EXCEPT !.pc = "filled_find"])
        ELSE Return(w1, t, NoOrder)

(* handleCampaignFilledOrder: Campaigns.findById *)
handleCampaignFilledOrder_findById(w, t) ==
    Put(w, [t EXCEPT !.pc = "filled_update", !.bal = w.camp.balance])

(* Variant: a balance equal to the minimum makes the campaign inactive *)
campaignUpdate_atMinimum(c, o, balance) ==
    IF o.side = "buy"
    THEN [c EXCEPT !.balance = balance - o.total, !.coinAmount = o.exe]
    ELSE [c EXCEPT !.balance = balance + o.total, !.coinAmount = 0,
                   !.profitLoss = balance + o.total - c.initialBalance,
                   !.tradePlan = NullPlan, !.activeOrder = NoOrder,
                   !.status = IF balance + o.total <= MinBalance
                              THEN "inactive" ELSE @]

(* handleCampaignFilledOrder: Campaigns.updateOne(campaignUpdate) *)
campaignUpdate(c, o, balance) ==
    IF o.side = "buy"
    THEN [c EXCEPT !.balance = balance - o.total, !.coinAmount = o.exe]
    ELSE [c EXCEPT !.balance = balance + o.total, !.coinAmount = 0,
                   !.profitLoss = balance + o.total - c.initialBalance,
                   !.tradePlan = NullPlan, !.activeOrder = NoOrder,
                   !.status = IF balance + o.total < MinBalance
                              THEN "inactive" ELSE @]

handleCampaignFilledOrder_updateOne(w, t) ==
    LET w1 == [w EXCEPT !.camp = campaignUpdate(@, t.ord, t.bal),
                        !.applied = @ (+) One(t.ord)]
        t1 == [t EXCEPT !.bal = 0]
    IN  IF t.ord.side = "sell"
        THEN Put(w1, [t1 EXCEPT !.pc = "trade_find"])
        ELSE Return(w1, t1, NoOrder)

(* createTrade: the two Orders.findOne and Trades.find; a missing order is *)
(* a TypeError that createTrade catches and logs                           *)
createTrade_find(w, t) ==
    LET so == findFilled(w, t.ord.cid, "sell")
        bo == findFilled(w, t.ord.cid, "buy")
    IN  IF so = NoOrder \/ bo = NoOrder
        THEN Return(w, t, NoOrder)
        ELSE Put(w, [t EXCEPT !.pc = "trade_create", !.pl = so.total - bo.total,
                              !.past = w.trades])

(* The number of Trade records among rs in the bag pastTrades, and the sum *)
(* of their profitLoss                                                     *)
RECURSIVE length(_, _), sum(_, _)
length(pastTrades, rs) ==
    IF rs = {} THEN 0
    ELSE LET r == CHOOSE x \in rs : TRUE
         IN  pastTrades[r] + length(pastTrades, rs \ {r})

sum(pastTrades, rs) ==
    IF rs = {} THEN 0
    ELSE LET r == CHOOSE x \in rs : TRUE
         IN  pastTrades[r] * r.profitLoss + sum(pastTrades, rs \ {r})

(* createTrade: expectancyValue, in hundredths of the quote currency.      *)
(* winRate = wins / n, avgWin = sum of the wins / wins and avgLoss = sum   *)
(* of the losses / losses, which is negative; with no win or no loss one   *)
(* of the averages is 0 / 0 = NaN and round(NaN) || 0 is 0.  Otherwise     *)
(* winRate * avgWin - (1 - winRate) * avgLoss is (sum of the wins - sum of *)
(* the losses) / n, rounded to the hundredth by Math.round.                *)
expectancyValue(pastTrades) ==
    LET pastWinningTrades == {r \in BagToSet(pastTrades) : r.profitLoss >= 0}
        pastLosingTrades == {r \in BagToSet(pastTrades) : r.profitLoss < 0}
        n == BagCardinality(pastTrades)
        x == 10 * (sum(pastTrades, pastWinningTrades) - sum(pastTrades, pastLosingTrades))
    IN  IF pastWinningTrades = {} \/ pastLosingTrades = {} THEN 0
        ELSE (2 * x + n) \div (2 * n)

(* createTrade: Trades.create; expectancy is null (<<>>) without past      *)
(* trades, else { value }                                                  *)
createTrade_create(w, t) ==
    LET expectancy == IF t.past = EmptyBag THEN <<>>
                      ELSE <<expectancyValue(t.past)>>
    IN  Return([w EXCEPT !.trades = @ (+) One([cid |-> t.ord.cid,
                                                profitLoss |-> t.pl,
                                                expectancy |-> expectancy])],
               [t EXCEPT !.pl = 0, !.past = EmptyBag], NoOrder)

----------------------------------------------------------------------------
(* watchOrderTillFill and handleTakeProfit (trader.mjs) *)

(* getBinanceOrder in the watcher; a non-terminal order reschedules the    *)
(* watcher with retry = 1                                                  *)
watch_getOrder(w, t) ==
    LET o == getBinanceOrder(w, t.oid)
    IN  IF o.status \in {"filled", "cancelled"}
        THEN Put(w, Call([t EXCEPT !.ord = o], "hou_find", "watch_update"))
        ELSE Put(w, [t EXCEPT !.retry = 1])

(* Variant: handleTakeProfit does not look at the active order *)
handleTakeProfit_findById_noCheck(w, t) ==
    Put(w, [t EXCEPT !.pc = "tp_order"])

(* handleTakeProfit: Campaigns.findById; with a placed sell as the active  *)
(* order it watches that order (no payload) and returns undefined          *)
handleTakeProfit_findById(w, t) ==
    LET a == w.camp.activeOrder
    IN  IF a.status = "placed" /\ a.side = "sell"
        THEN Return(watchOrderTillFill(w, t.st, a.oid, NoPlan), t, NoOrder)
        ELSE Put(w, [t EXCEPT !.pc = "tp_order"])

(* handleTakeProfit: binance.sellLimitOrder, then handleOrderUpdate *)
handleTakeProfit_sellLimitOrder(w, t, imm) ==
    LET r == sellLimitOrder(w, t.ord.exe, t.ord.cid, t.pay.takeProfit, imm)
    IN  Put(r.w, Call([t EXCEPT !.ord = r.order], "hou_find", "handleTakeProfit"))

----------------------------------------------------------------------------
(* handleBuy, handleCancel, handleSell (trader.mjs) *)

(* Variant: handleBuy does not look at the status of the active order *)
handleBuy_findById_noCheck(w, t) ==
    Put(w, [t EXCEPT !.pc = "buy_order", !.bal = w.camp.balance,
                     !.ao = w.camp.activeOrder])

(* handleBuy: Campaigns.findById *)
handleBuy_findById(w, t) ==
    LET a == w.camp.activeOrder
    IN  IF a.status = "placed"
        THEN Return(watchOrderTillFill(w, t.st, a.oid, t.pay), t, a)
        ELSE Put(w, [t EXCEPT !.pc = "buy_order", !.bal = w.camp.balance, !.ao = a])

(* handleBuy: binance.buyStopLimitOrder, then the watcher if placed *)
handleBuy_buyStopLimitOrder(w, t, imm) ==
    LET r == buyStopLimitOrder(w, t.bal, t.pay.entryPrice, imm)
        w1 == IF r.order.status = "placed"
              THEN watchOrderTillFill(r.w, t.st, r.order.oid, t.pay) ELSE r.w
    IN  Put(w1, [t EXCEPT !.pc = "buy_plan", !.ord = r.order, !.bal = 0,
                          !.ao = NoOrder])

(* handleBuy: Campaigns.updateOne({ tradePlan }), then handleOrderUpdate *)
handleBuy_updateOne(w, t) ==
    Put([w EXCEPT !.camp.tradePlan = t.pay], Call(t, "hou_find", "handleBuy"))

(* handleCancel: Campaigns.findById *)
handleCancel_findById(w, t) ==
    LET a == w.camp.activeOrder
    IN  IF a = NoOrder THEN Return(w, t, NoOrder)
        ELSE IF a.status = "placed"
        THEN Put(w, [t EXCEPT !.pc = "cancel_getOrder", !.cao = a])
        ELSE Return(w, t, a)

(* Variant: handleCancel cancels whatever the exchange reports *)
handleCancel_getBinanceOrder_noCheck(w, t) ==
    Put(w, [t EXCEPT !.pc = "cancel_order"])

(* handleCancel: getBinanceOrder *)
handleCancel_getBinanceOrder(w, t) ==
    LET b == getBinanceOrder(w, t.cao.oid)
    IN  IF b.status = "placed"
        THEN Put(w, [t EXCEPT !.pc = "cancel_order"])
        ELSE Return(w, [t EXCEPT !.cao = NoOrder], b)

(* handleCancel: binance.cancelOrder, which the exchange refuses for an    *)
(* order that is no longer open; then handleOrderUpdate                    *)
handleCancel_cancelOrder(w, t) ==
    LET o == t.cao.oid
    IN  IF w.exch[o].status = "placed"
        THEN LET ex == [w.exch EXCEPT ![o].status = "cancelled"]
             IN  Put([w EXCEPT !.exch = ex],
                     Call([t EXCEPT !.ord = normalizeResponse(ex, o)],
                          "hou_find", "handleCancel"))
        ELSE Throw(w, [t EXCEPT !.cao = NoOrder], "handleCancel")

(* Variant: handleSell goes on to sell without an active order *)
handleSell_findOne_noCheck(w, t) ==
    LET a == w.camp.activeOrder
    IN  IF a.side = "sell" /\ a.status = "placed"
        THEN Put(w, Call([t EXCEPT !.ao = a], "cancel_find", "handleSell_cancel"))
        ELSE Put(w, [t EXCEPT !.pc = "sell_order", !.ao = a])

(* handleSell: Campaigns.findOne *)
handleSell_findOne(w, t) ==
    LET a == w.camp.activeOrder
    IN  IF a = NoOrder THEN Return(w, t, NoOrder)
        ELSE IF a.side = "sell" /\ a.status = "placed"
        THEN Put(w, Call([t EXCEPT !.ao = a], "cancel_find", "handleSell_cancel"))
        ELSE Put(w, [t EXCEPT !.pc = "sell_order", !.ao = a])

(* handleSell: binance.sellMarketOrder, then handleOrderUpdate *)
handleSell_sellMarketOrder(w, t) ==
    LET a == t.ao
        r == sellMarketOrder(w, IF a.exe # 0 THEN a.exe ELSE a.amt, a.cid)
    IN  Put(r.w, Call([t EXCEPT !.ord = r.order, !.ao = NoOrder],
                      "hou_find", "handleSell"))

----------------------------------------------------------------------------
(* The per-campaign loop (index.mjs) *)

(* handleCampaign: Campaigns.findById *)
handleCampaign_findById(w, t) ==
    Put(w, [t EXCEPT !.pc = "loop_init", !.ao = w.camp.activeOrder,
                     !.pay = w.camp.tradePlan])

(* Variant: only a placed order gets a watcher at the start of the loop *)
prepStrategy_placedOnly(w, st, activeOrder, tradePlan) ==
    LET w1 == IF tradePlan \notin {NoPlan, NullPlan}
              THEN [w EXCEPT !.strat[st].tradePlan = tradePlan] ELSE w
        side == activeOrder.side
        status == activeOrder.status
        w2 == [w1 EXCEPT !.strat[st].nextAction = setOrderStatus(side, status)]
        w3 == IF status = "placed"
              THEN watchOrderTillFill(w2, st, activeOrder.oid, tradePlan) ELSE w2
        w4 == IF status = "placed" /\ side = "sell" /\ tradePlan.stopLoss > 0
              THEN handleStopLoss(w3, st, tradePlan.stopLoss) ELSE w3
    IN  IF activeOrder = NoOrder THEN w1 ELSE w4

(* prepStrategy on the new Strategy st and the campaign read at the start *)
prepStrategy(w, st, activeOrder, tradePlan) ==
    LET w1 == IF tradePlan \notin {NoPlan, NullPlan}
              THEN [w EXCEPT !.strat[st].tradePlan = tradePlan] ELSE w
        side == activeOrder.side
        status == activeOrder.status
        filledBuy == status = "filled" /\ side = "buy"
        w2 == [w1 EXCEPT !.strat[st].nextAction = setOrderStatus(side, status)]
        w3 == IF status = "placed" \/ filledBuy
              THEN watchOrderTillFill(w2, st, activeOrder.oid, tradePlan) ELSE w2
        w4 == IF status = "placed" /\ side = "sell" /\ tradePlan.stopLoss > 0
              THEN handleStopLoss(w3, st, tradePlan.stopLoss) ELSE w3
    IN  IF activeOrder = NoOrder THEN w1 ELSE w4

(* getStrategy (strategy.init on yesterday's candle) and prepStrategy;     *)
(* without a bullish candle the loop sleeps until tomorrow and restarts    *)
handleCampaign_getStrategy(w, t, c) ==
    LET st == Len(w.strat) + 1
        strategy == init(NewStrategy, c)
        w1 == [w EXCEPT !.strat = Append(@, strategy)]
    IN  IF ~canRun(strategy) THEN Put(w, LoopRestart(t))
        ELSE Put(prepStrategy(w1, st, t.ao, t.pay),
                 NewTask("loop", "loop_run", st))

(* Variant: at the end time a strategy waiting for its exit just ends *)
run_exitNotForced(s, phase, sig, plan) ==
    IF phase = "warmup"
    THEN [action |-> "wait_for_trade_time", reason |-> "none", s |-> s]
    ELSE IF phase = "eod"
    THEN [action |-> CASE s.nextAction = "wait_for_entry" -> "cancel_buy"
                       [] s.nextAction = "wait_for_sell_order" -> "sell"
                       [] OTHER -> "end",
          reason |-> "end_of_day",
          s |-> [s EXCEPT !.done = TRUE, !.reason = "End time reached"]]
    ELSE IF s.nextAction = "wait_buy_signal" /\ sig
    THEN [action |-> "buy", reason |-> "rsi_crossed_over",
          s |-> [s EXCEPT !.nextAction = "wait_for_entry", !.tradePlan = plan]]
    ELSE IF s.nextAction = "wait_for_entry" /\ sig
    THEN [action |-> "cancel_buy", reason |-> "reached",
          s |-> [s EXCEPT !.nextAction = "wait_buy_signal"]]
    ELSE [action |-> s.nextAction, reason |-> "none", s |-> s]

(* Strategy.run: the action, the reason its payload carries ("reached"     *)
(* stands for stop_loss_reached or take_profit_reached) and the strategy   *)
(* it leaves.  phase says where the newest candle lies (warm-up, trading  *)
(* time, end time reached);                                                *)
(* sig is the outcome of the candle tests of the current state and plan    *)
(* the payload of a buy.                                                   *)
run(s, phase, sig, plan) ==
    IF phase = "warmup"
    THEN [action |-> "wait_for_trade_time", reason |-> "none", s |-> s]
    ELSE IF phase = "eod"
    THEN [action |-> CASE s.nextAction = "wait_for_entry" -> "cancel_buy"
                       [] s.nextAction \in {"wait_for_sell_order", "wait_for_exit"} -> "sell"
                       [] OTHER -> "end",
          reason |-> "end_of_day",
          s |-> [s EXCEPT !.done = TRUE, !.reason = "End time reached"]]
    ELSE IF s.nextAction = "wait_buy_signal" /\ sig
    THEN [action |-> "buy", reason |-> "rsi_crossed_over",
          s |-> [s EXCEPT !.nextAction = "wait_for_entry", !.tradePlan = plan]]
    ELSE IF s.nextAction = "wait_for_entry" /\ sig
    THEN [action |-> "cancel_buy", reason |-> "reached",
          s |-> [s EXCEPT !.nextAction = "wait_buy_signal"]]
    ELSE [action |-> s.nextAction, reason |-> "none", s |-> s]

(* handleCampaign: strategy.waitNextCandle() and the loop test.  The timer  *)
(* touches no shared state, so it is taken together with the step before   *)
(* it: the loop goes on to the next run(), or, when the strategy is done,  *)
(* through handleCampaignEnd to the restart timer.                         *)
waitNextCandle(w, t) ==
    IF canRun(w.strat[t.st])
    THEN Put(w, NewTask("loop", "loop_run", t.st))
    ELSE Put(w, LoopRestart(t))

(* handleCampaign: strategy.run(), then the handler of the action *)
handleCampaign_run(w, t, phase, sig) ==
    LET r == run(w.strat[t.st], phase, sig, ThePlan)
        w1 == [w EXCEPT !.strat[t.st] = r.s]
        t1 == [t EXCEPT !.act = r.action]
    IN  CASE r.action = "buy" ->
                Put(w1, Call([t1 EXCEPT !.pay = ThePlan], "buy_find", "handleCampaign"))
          [] r.action = "cancel_buy" ->
                Put(w1, Call(t1, "cancel_find", "handleCampaign"))
          [] r.action = "sell" ->
                Put(w1, Call(t1, "sell_find", "handleCampaign"))
          [] OTHER -> waitNextCandle(w1, t1)

(* Variant: the loop goes on to the next candle without writing the Event *)
handleCampaign_createEvent_skip(w, t) ==
    waitNextCandle(w, t)

(* handleCampaign: Events.create({ campaignId, action, payload }), then    *)
(* waitNextCandle                                                          *)
handleCampaign_createEvent(w, t) ==
    waitNextCandle([w EXCEPT !.events = @ (+) One(t.act)], t)

(* Calls on one Strategy object, recorded in out *)

(* Variant: setOrderStatus makes the strategy runnable again *)
Strategy_setOrderStatus_reopens(w, side, status) ==
    LET s == w.strat[1]
        next == setOrderStatus(side, status)
        o == [NoOut EXCEPT !.op = "setOrderStatus", !.was = s.nextAction,
                           !.side = side, !.status = status]
    IN  IF next = "error"
        THEN [w EXCEPT !.out = [o EXCEPT !.action = "error"]]
        ELSE [w EXCEPT !.strat[1].nextAction = next, !.strat[1].done = FALSE,
                       !.out = [o EXCEPT !.action = "ok"]]

(* strategy.setOrderStatus(side, status): sets nextAction, or throws and   *)
(* leaves the object as it is                                              *)
Strategy_setOrderStatus(w, side, status) ==
    LET s == w.strat[1]
        next == setOrderStatus(side, status)
        o == [NoOut EXCEPT !.op = "setOrderStatus", !.was = s.nextAction,
                           !.side = side, !.status = status]
    IN  IF next = "error"
        THEN [w EXCEPT !.out = [o EXCEPT !.action = "error"]]
        ELSE [w EXCEPT !.strat[1].nextAction = next,
                       !.out = [o EXCEPT !.action = "ok"]]

(* strategy.run() on the candles and indicator values of c; support and   *)
(* resistance are the object's own                                        *)
Strategy_run(w, c) ==
    LET s == w.strat[1]
        f == [c EXCEPT !.support = s.support, !.resistance = s.resistance]
        r == run(s, f.phase, signal(s, f), payloadOf(f))
    IN  [w EXCEPT !.strat[1] = r.s,
                  !.out = [NoOut EXCEPT !.op = "run", !.was = s.nextAction,
                                        !.action = r.action, !.feed = f,
                                        !.reason =
                                            IF r.reason # "reached" THEN r.reason
                                            ELSE IF stopLossReached(s, f)
                                            THEN "stop_loss_reached"
                                            ELSE "take_profit_reached",
                                        !.plan = IF r.action = "buy"
                                                 THEN payloadOf(f) ELSE NullPlan]]

(* strategy.init() when the exchange answers with the daily candle c *)
Strategy_init(w, c) ==
    [w EXCEPT !.strat[1] = init(@, c),
              !.out = [NoOut EXCEPT !.op = "init", !.candle = c]]

(* handleCampaign: Campaigns.findById rejects (the ledger cannot be       *)
(* reached).  The read stands before the try block of handleCampaign.      *)
handleCampaign_findById_fails(w, t) == Throw(w, t, "handleCampaign")

(* handleSell: Campaigns.findOne rejects, inside the try block *)
handleSell_findOne_fails(w, t) == Throw(w, t, "handleSell")

(* handleOrderUpdate: Campaigns.updateOne({ activeOrder }) rejects after   *)
(* Orders.create has written the record; handleOrderUpdate has no try      *)
(* block                                                                   *)
handleOrderUpdate_updateOne_fails(w, t) == Throw(w, t, "handleOrderUpdate")

(* watchOrderTillFill: getBinanceOrder rejects, inside the try block *)
watch_getOrder_fails(w, t) == Throw(w, t, "watch")

(* handleTakeProfit: Campaigns.findById rejects; handleTakeProfit has no   *)
(* try block, the rejection reaches the caller that awaits it             *)
handleTakeProfit_findById_fails(w, t) == Throw(w, t, "handleTakeProfit")

(* Variant: the campaign is not marked as tracked *)
watchCampaigns_noPush(w, ok) ==
    IF ok /\ w.camp.status = "active"
          /\ \A i \in 1..Len(w.ACTIVE_CAMPAIGNS) : w.ACTIVE_CAMPAIGNS[i] # w.camp.id
    THEN [Put(w, NewTask("loop", "loop_find", 0)) EXCEPT !.started = @ + 1]
    ELSE w

(* watchCampaigns: one poll.  Campaigns.find({ status: 'active', _id: {    *)
(* $nin: ACTIVE_CAMPAIGNS } }) answers (ok) or rejects, which the poll     *)
(* catches; for a campaign found handleCampaign is called without await    *)
(* and the id is pushed.  The next poll is scheduled when this one is      *)
(* over, so polls do not overlap and a poll is one step.                   *)
watchCampaigns(w, ok) ==
    IF ok /\ w.camp.status = "active"
          /\ \A i \in 1..Len(w.ACTIVE_CAMPAIGNS) : w.ACTIVE_CAMPAIGNS[i] # w.camp.id
    THEN [Put(w, NewTask("loop", "loop_find", 0)) EXCEPT
             !.ACTIVE_CAMPAIGNS = Append(@, w.camp.id), !.started = @ + 1]
    ELSE w

----------------------------------------------------------------------------
(* The exchange and the market *)

(* One more lot of an open order executes *)
exchangeFill(w, o) ==
    LET e == w.exch[o]
        e1 == [e EXCEPT !.exe = @ + 1,
                        !.status = IF e.exe + 1 = e.amt THEN "filled" ELSE @]
    IN  [w EXCEPT !.exch[o] = e1,
                  !.held = IF e.side = "buy" THEN @ + 1 ELSE @ - 1]

(* The exchange cancels an open order itself (expired, rejected) *)
exchangeExpire(w, o) == [w EXCEPT !.exch[o].status = "cancelled"]

(* binanceEmitter.emit(symbol, { price }): every listener runs *)
RECURSIVE emit(_, _, _)
emit(w, listeners, price) ==
    IF listeners = {} THEN w
    ELSE LET sub == CHOOSE x \in listeners : \A y \in listeners : x.id <= y.id
         IN  emit(sellOrder(w, sub, price), listeners \ {sub}, price)

----------------------------------------------------------------------------
(* Specification *)

(* The campaign document the ledger holds when the bot starts *)
TheCampaign ==
    [id |-> "c1", balance |-> InitialBalance, initialBalance |-> InitialBalance,
     activeOrder |-> NoOrder, tradePlan |-> NoPlan, coinAmount |-> 0,
     profitLoss |-> 0, status |-> "active"]

(* The state once the first poll of watchCampaigns has started the loop of *)
(* the campaign                                                            *)
Init ==
    /\ exch = <<>>
    /\ held = 0
    /\ orders = EmptyBag
    /\ trades = EmptyBag
    /\ events = EmptyBag
    /\ camp = TheCampaign
    /\ strat = <<>>
    /\ tasks = One(NewTask("loop", "loop_find", 0))
    /\ subs = {}
    /\ fired = <<>>
    /\ applied = EmptyBag
    /\ ACTIVE_CAMPAIGNS = <<TheCampaign.id>>
    /\ started = 1
    /\ unhandled = FALSE
    /\ out = NoOut
    /\ closed = 0

At(pc) == {t \in BagToSet(tasks) : t.pc = pc}

HandleOrderUpdateFindOne ==
    \E t \in At("hou_find") : Apply(handleOrderUpdate_findOne(Take(W, t), t))

HandleOrderUpdateCreate ==
    \E t \in At("hou_create") : Apply(handleOrderUpdate_create(Take(W, t), t))

HandleOrderUpdateUpdateOne ==
    \E t \in At("hou_update") : Apply(handleOrderUpdate_updateOne(Take(W, t), t))

HandleCampaignFilledOrderFindById ==
    \E t \in At("filled_find") : Apply(handleCampaignFilledOrder_findById(Take(W, t), t))

HandleCampaignFilledOrderUpdateOne ==
    \E t \in At("filled_update") : Apply(handleCampaignFilledOrder_updateOne(Take(W, t), t))

CreateTradeFind ==
    \E t \in At("trade_find") : Apply(createTrade_find(Take(W, t), t))

CreateTradeCreate ==
    \E t \in At("trade_create") : Apply(createTrade_create(Take(W, t), t))

WatchGetOrder ==
    \E t \in At("watch_getOrder") : Apply(watch_getOrder(Take(W, t), t))

HandleTakeProfitFindById ==
    \E t \in At("tp_find") : Apply(handleTakeProfit_findById(Take(W, t), t))

HandleTakeProfitSellLimitOrder ==
    \E t \in At("tp_order"), imm \in BOOLEAN :
        Apply(handleTakeProfit_sellLimitOrder(Take(W, t), t, imm))

HandleBuyFindById ==
    \E t \in At("buy_find") : Apply(handleBuy_findById(Take(W, t), t))

HandleBuyBuyStopLimitOrder ==
    \E t \in At("buy_order"), imm \in BOOLEAN :
        Apply(handleBuy_buyStopLimitOrder(Take(W, t), t, imm))

HandleBuyUpdateOne ==
    \E t \in At("buy_plan") : Apply(handleBuy_updateOne(Take(W, t), t))

HandleCancelFindById ==
    \E t \in At("cancel_find") : Apply(handleCancel_findById(Take(W, t), t))

HandleCancelGetBinanceOrder ==
    \E t \in At("cancel_getOrder") : Apply(handleCancel_getBinanceOrder(Take(W, t), t))

HandleCancelCancelOrder ==
    \E t \in At("cancel_order") : Apply(handleCancel_cancelOrder(Take(W, t), t))

HandleSellFindOne ==
    \E t \in At("sell_find") : Apply(handleSell_findOne(Take(W, t), t))

HandleSellSellMarketOrder ==
    \E t \in At("sell_order") : Apply(handleSell_sellMarketOrder(Take(W, t), t))

HandleCampaignFindById ==
    \E t \in At("loop_find") : Apply(handleCampaign_findById(Take(W, t), t))

HandleCampaignGetStrategy ==
    \E t \in At("loop_init"), c \in PriorDay :
        Apply(handleCampaign_getStrategy(Take(W, t), t, c))

HandleCampaignRun ==
    \E t \in At("loop_run"), phase \in {"warmup", "trade", "eod"}, sig \in BOOLEAN :
        Apply(handleCampaign_run(Take(W, t), t, phase, sig))

HandleCampaignCreateEvent ==
    \E t \in At("loop_event") : Apply(handleCampaign_createEvent(Take(W, t), t))

OpenOrders == {o \in 1..Len(exch) : exch[o].status = "placed"}

ExchangeFill == \E o \in OpenOrders : Apply(exchangeFill(W, o))

ExchangeExpire == \E o \in OpenOrders : Apply(exchangeExpire(W, o))

PriceTick == \E w \in {emit(W, subs, price) : price \in TickPrices} : Apply(w)

Next ==
    \/ HandleOrderUpdateFindOne
    \/ HandleOrderUpdateCreate
    \/ HandleOrderUpdateUpdateOne
    \/ HandleCampaignFilledOrderFindById
    \/ HandleCampaignFilledOrderUpdateOne
    \/ CreateTradeFind
    \/ CreateTradeCreate
    \/ WatchGetOrder
    \/ HandleTakeProfitFindById
    \/ HandleTakeProfitSellLimitOrder
    \/ HandleBuyFindById
    \/ HandleBuyBuyStopLimitOrder
    \/ HandleBuyUpdateOne
    \/ HandleCancelFindById
    \/ HandleCancelGetBinanceOrder
    \/ HandleCancelCancelOrder
    \/ HandleSellFindOne
    \/ HandleSellSellMarketOrder
    \/ HandleCampaignFindById
    \/ HandleCampaignGetStrategy
    \/ HandleCampaignRun
    \/ HandleCampaignCreateEvent
    \/ ExchangeFill
    \/ ExchangeExpire
    \/ PriceTick

Spec == Init /\ [][Next]_vars

(* Every awaited request of a call that is alive is answered and the code  *)
(* after it runs.  The exchange and the market owe nothing: an order may   *)
(* rest for ever, and run() may answer wait at every candle, which leaves  *)
(* the state as it is.                                                     *)
FairNext ==
    /\ WF_vars(HandleOrderUpdateFindOne)
    /\ WF_vars(HandleOrderUpdateCreate)
    /\ WF_vars(HandleOrderUpdateUpdateOne)
    /\ WF_vars(HandleCampaignFilledOrderFindById)
    /\ WF_vars(HandleCampaignFilledOrderUpdateOne)
    /\ WF_vars(CreateTradeFind)
    /\ WF_vars(CreateTradeCreate)
    /\ WF_vars(WatchGetOrder)
    /\ WF_vars(HandleTakeProfitFindById)
    /\ WF_vars(HandleTakeProfitSellLimitOrder)
    /\ WF_vars(HandleBuyFindById)
    /\ WF_vars(HandleBuyBuyStopLimitOrder)
    /\ WF_vars(HandleBuyUpdateOne)
    /\ WF_vars(HandleCancelFindById)
    /\ WF_vars(HandleCancelGetBinanceOrder)
    /\ WF_vars(HandleCancelCancelOrder)
    /\ WF_vars(HandleSellFindOne)
    /\ WF_vars(HandleSellSellMarketOrder)
    /\ WF_vars(HandleCampaignFindById)
    /\ WF_vars(HandleCampaignGetStrategy)
    /\ WF_vars(HandleCampaignCreateEvent)

SpecFair == Spec /\ FairNext

----------------------------------------------------------------------------
(* The bot from its start: the coordinator's polls start the loop, and    *)
(* the ledger read at the start of handleCampaign may fail.  SpecFault     *)
(* adds a failing ledger read in handleSell.                               *)

InitCoord ==
    /\ exch = <<>>
    /\ held = 0
    /\ orders = EmptyBag
    /\ trades = EmptyBag
    /\ events = EmptyBag
    /\ camp = TheCampaign
    /\ strat = <<>>
    /\ tasks = EmptyBag
    /\ subs = {}
    /\ fired = <<>>
    /\ applied = EmptyBag
    /\ ACTIVE_CAMPAIGNS = <<>>
    /\ started = 0
    /\ unhandled = FALSE
    /\ out = NoOut
    /\ closed = 0

WatchCampaigns == \E w \in {watchCampaigns(W, ok) : ok \in BOOLEAN} : Apply(w)

HandleCampaignFindByIdFails ==
    \E t \in At("loop_find") : Apply(handleCampaign_findById_fails(Take(W, t), t))

HandleSellFindOneFails ==
    \E t \in At("sell_find") : Apply(handleSell_findOne_fails(Take(W, t), t))

NextCoord ==
    \/ Next
    \/ WatchCampaigns
    \/ HandleCampaignFindByIdFails

SpecCoord == InitCoord /\ [][NextCoord]_vars

NextFault ==
    \/ NextCoord
    \/ HandleSellFindOneFails

SpecFault == InitCoord /\ [][NextFault]_vars

----------------------------------------------------------------------------
(* The signal engine alone: one Strategy object from its construction.    *)
(* init() runs once on one of DayCandles; then run() is called while       *)
(* canRun() and setOrderStatus at any time, with feeds and arguments drawn *)
(* from the sets below.  The support and resistance written in a feed are  *)
(* replaced by the object's own when run() reads it.                       *)

(* support 100, resistance 110, tick 0.1, high 101; RSI 30 -> 45 against   *)
(* SMA 44.4 -> 44.3                                                        *)
Scenario ==
    [phase |-> "trade", rsi |-> 450, prevRsi |-> 300, sma |-> 443, prevSma |-> 444,
     support |-> 1000, resistance |-> 1100, high |-> 1010, low |-> 1005,
     close |-> 1010]

(* Indicator values around the bands and the threshold, on a candle that   *)
(* passes the price tests                                                  *)
IndicatorFeeds ==
    {[phase |-> "trade", rsi |-> r, prevRsi |-> 300, sma |-> r - d,
      prevSma |-> 300 - pd, support |-> 1, resistance |-> 11, high |-> 5,
      low |-> 5, close |-> 5] :
        r \in {RSI_LOWER_BAND, RSI_LOWER_BAND + 1, RSI_UPPER_BAND - 1, RSI_UPPER_BAND},
        d \in {CROSS_OVER_THRESHOLD, CROSS_OVER_THRESHOLD + 1},
        pd \in {CROSS_OVER_THRESHOLD - 1, CROSS_OVER_THRESHOLD, CROSS_OVER_THRESHOLD + 1}}

(* Candles between and around support and resistance, on indicators that   *)
(* pass the indicator tests                                                *)
CandleFeeds ==
    {[Scenario EXCEPT !.high = h, !.low = l, !.close = h] :
        h \in {5, 7, 9, 10}, l \in {2, 5}}

Feeds ==
    IndicatorFeeds \cup CandleFeeds
        \cup {Scenario, [Scenario EXCEPT !.phase = "warmup"],
                        [Scenario EXCEPT !.phase = "eod"]}

(* Yesterday's candle: risen or fallen, with a range above, at and below  *)
(* 2 % of its high                                                         *)
DayCandles ==
    {[open |-> IF up THEN r[1] ELSE r[2], high |-> r[2], low |-> r[1],
      close |-> IF up THEN r[2] ELSE r[1]] :
        up \in BOOLEAN,
        r \in {<<1, 11>>, <<1, 12>>, <<5, 11>>, <<5, 12>>, <<1000, 1100>>,
               <<3, 13>>, <<979, 1000>>, <<980, 1000>>, <<1000, 1000>>}}

Sides == {"buy", "sell", "BUY", "undefined"}

Statuses == {"placed", "filled", "cancelled", "expired", "undefined"}

InitEngine ==
    /\ exch = <<>>
    /\ held = 0
    /\ orders = EmptyBag
    /\ trades = EmptyBag
    /\ events = EmptyBag
    /\ camp = TheCampaign
    /\ strat = <<NewStrategy>>
    /\ tasks = EmptyBag
    /\ subs = {}
    /\ fired = <<>>
    /\ applied = EmptyBag
    /\ ACTIVE_CAMPAIGNS = <<>>
    /\ started = 0
    /\ unhandled = FALSE
    /\ out = NoOut
    /\ closed = 0

(* init() has run on the object *)
Initialised == strat[1].done \/ strat[1].support # -1

EngineInit ==
    \E w \in {Strategy_init(W, c) : c \in DayCandles} : ~Initialised /\ Apply(w)

EngineRun ==
    \E w \in {Strategy_run(W, f) : f \in Feeds} :
        Initialised /\ canRun(strat[1]) /\ Apply(w)

EngineSetOrderStatus ==
    \E w \in {Strategy_setOrderStatus(W, sd, st) : sd \in Sides, st \in Statuses} :
        Initialised /\ Apply(w)

NextEngine ==
    \/ EngineInit
    \/ EngineRun
    \/ EngineSetOrderStatus

SpecEngine == InitEngine /\ [][NextEngine]_vars

----------------------------------------------------------------------------
(* handleOrderUpdate alone: one call, on an order the exchange reports and *)
(* the ledger the campaign has at that point of a round trip, after the    *)
(* trades of earlier days.  The round trip is the buy of 2 coins at        *)
(* EntryPrice and their sale at one of SellPrices.                         *)

SellPrices == {50, TakeProfit}

PastProfits == {-6, -5, 0, 30}

(* A Trade of an earlier day *)
PastTrade(profitLoss) == [cid |-> 0, profitLoss |-> profitLoss, expectancy |-> <<>>]

(* The Trades collection with no, one or two trades of earlier days *)
PastTrades ==
    {SetToBag({})} \cup
    {One(PastTrade(a)) (+) b :
        a \in PastProfits,
        b \in {SetToBag({})} \cup {One(PastTrade(c)) : c \in PastProfits}}

(* The orders of the round trip on the exchange *)
BuyEntry(status) ==
    [side |-> "buy", type |-> "stop", cid |-> 1, amt |-> 2, price |-> EntryPrice,
     exe |-> IF status = "filled" THEN 2 ELSE 0, status |-> status]

SellEntry(status, price) ==
    [side |-> "sell", type |-> "limit", cid |-> 1, amt |-> 2, price |-> price,
     exe |-> IF status = "filled" THEN 2 ELSE 0, status |-> status]

(* The exchange when the update is about the buy, about the sell, and when *)
(* the sell request was rejected (rejected = TRUE)                         *)
Exchanges ==
    {[exch |-> <<BuyEntry(st)>>, rejected |-> FALSE] :
        st \in {"placed", "filled", "cancelled"}}
    \cup {[exch |-> <<BuyEntry("filled"), SellEntry(st, pr)>>, rejected |-> FALSE] :
            st \in {"placed", "filled", "cancelled"}, pr \in SellPrices}
    \cup {[exch |-> <<BuyEntry("filled"), SellEntry("rejected", TakeProfit)>>,
           rejected |-> TRUE]}

(* The order handleOrderUpdate is called with *)
UpdateOf(x) ==
    IF x.rejected THEN orderError("sell", 2, 1)
    ELSE structureOrder(x.exch, Len(x.exch))

(* The records the ledger has of the earlier statuses of the round trip's  *)
(* orders                                                                  *)
OrdersBefore(x) ==
    LET placedBuy == structureOrder(<<BuyEntry("placed")>>, 1)
        filledBuy == structureOrder(<<BuyEntry("filled")>>, 1)
        placedSell == structureOrder(<<BuyEntry("filled"),
                                       SellEntry("placed", x.exch[Len(x.exch)].price)>>, 2)
        last == x.exch[Len(x.exch)]
    IN  IF Len(x.exch) = 1
        THEN IF last.status = "placed" THEN {} ELSE {placedBuy}
        ELSE IF last.status \in {"placed", "rejected"}
        THEN {placedBuy, filledBuy}
        ELSE {placedBuy, filledBuy, placedSell}

(* The order with the highest orderId among the records: the active order *)
ActiveBefore(x) ==
    IF OrdersBefore(x) = {} THEN NoOrder
    ELSE CHOOSE r \in OrdersBefore(x) :
            \A q \in OrdersBefore(x) :
                r.oid > q.oid \/ (r.oid = q.oid /\ (r = q \/ r.status = "filled"))

(* The campaign: the balance is the initial balance plus the profit of the *)
(* earlier trades, less the total of the buy once it is filled             *)
CampaignBefore(x, pastTrades) ==
    LET boughtAt == IF Len(x.exch) = 2 THEN EntryPrice * 2 ELSE 0
        profit == sum(pastTrades, BagToSet(pastTrades))
    IN  [TheCampaign EXCEPT
            !.balance = InitialBalance + profit - boughtAt,
            !.profitLoss = profit,
            !.coinAmount = IF Len(x.exch) = 2 THEN 2 ELSE 0,
            !.activeOrder = ActiveBefore(x),
            !.tradePlan = ThePlan]

(* The Strategy object: initialised, in the state the active order put it  *)
(* in                                                                      *)
StrategyBefore(x) ==
    LET a == ActiveBefore(x)
        s == init(NewStrategy, CHOOSE c \in PriorDay : getBullishCandle(c) # NoCandle)
    IN  [s EXCEPT !.tradePlan = ThePlan,
                  !.nextAction = IF a = NoOrder THEN "wait_for_entry"
                                 ELSE setOrderStatus(a.side, a.status)]

InitLedger ==
    \E x \in Exchanges, pastTrades \in PastTrades :
        /\ exch = x.exch
        /\ held = IF Len(x.exch) = 2 /\ x.exch[2].status # "filled" THEN 2 ELSE 0
        /\ orders = SetToBag(OrdersBefore(x))
        /\ trades = pastTrades
        /\ events = EmptyBag
        /\ camp = CampaignBefore(x, pastTrades)
        /\ strat = <<StrategyBefore(x)>>
        /\ tasks = One([NewTask("update", "hou_find", 1) EXCEPT !.ord = UpdateOf(x)])
        /\ subs = {}
        /\ fired = <<>>
        /\ applied = SetToBag({r \in OrdersBefore(x) : r.status = "filled"})
        /\ ACTIVE_CAMPAIGNS = <<TheCampaign.id>>
        /\ started = 1
        /\ unhandled = FALSE
        /\ out = NoOut
        /\ closed = 0

NextLedger ==
    \/ HandleOrderUpdateFindOne
    \/ HandleOrderUpdateCreate
    \/ HandleOrderUpdateUpdateOne
    \/ HandleCampaignFilledOrderFindById
    \/ HandleCampaignFilledOrderUpdateOne
    \/ CreateTradeFind
    \/ CreateTradeCreate

SpecLedger == InitLedger /\ [][NextLedger]_vars

----------------------------------------------------------------------------
(* The watcher of a resting buy.  handleBuy has placed the stop-limit buy  *)
(* of ThePlan, persisted it and started the watcher; the campaign loop has *)
(* written its Event and sleeps in waitNextCandle for the whole behaviour. *)
(* The exchange may fill or expire the orders, a price may tick, and the   *)
(* request of the watcher and the first ledger read of handleTakeProfit    *)
(* may fail.                                                               *)

InitWatch ==
    LET r == [order |-> getBinanceOrder([exch |-> <<BuyEntry("placed")>>], 1)]
    IN  /\ exch = <<BuyEntry("placed")>>
        /\ held = 0
        /\ orders = One(r.order)
        /\ trades = EmptyBag
        /\ events = One("buy")
        /\ camp = [TheCampaign EXCEPT !.activeOrder = r.order, !.tradePlan = ThePlan]
        /\ strat = <<[init(NewStrategy, CHOOSE c \in PriorDay : canRun(init(NewStrategy, c)))
                         EXCEPT !.nextAction = "wait_for_entry", !.tradePlan = ThePlan]>>
        /\ tasks = One(NewTask("loop", "loop_run", 1))
                       (+) One([NewTask("watch", "watch_getOrder", 1) EXCEPT
                                   !.oid = r.order.oid, !.pay = ThePlan])
        /\ subs = {}
        /\ fired = <<>>
        /\ applied = EmptyBag
        /\ ACTIVE_CAMPAIGNS = <<TheCampaign.id>>
        /\ started = 1
        /\ unhandled = FALSE
        /\ out = NoOut
        /\ closed = 0

WatchGetOrderFails ==
    \E t \in At("watch_getOrder") : Apply(watch_getOrder_fails(Take(W, t), t))

HandleTakeProfitFindByIdFails ==
    \E t \in At("tp_find") :
        Apply(handleTakeProfit_findById_fails(Take(W, t), t))

NextWatch ==
    \/ WatchGetOrder
    \/ WatchGetOrderFails
    \/ HandleOrderUpdateFindOne
    \/ HandleOrderUpdateCreate
    \/ HandleOrderUpdateUpdateOne
    \/ HandleCampaignFilledOrderFindById
    \/ HandleCampaignFilledOrderUpdateOne
    \/ CreateTradeFind
    \/ CreateTradeCreate
    \/ HandleTakeProfitFindById
    \/ HandleTakeProfitFindByIdFails
    \/ HandleTakeProfitSellLimitOrder
    \/ HandleCancelFindById
    \/ HandleCancelGetBinanceOrder
    \/ HandleCancelCancelOrder
    \/ HandleSellFindOne
    \/ HandleSellSellMarketOrder
    \/ ExchangeFill
    \/ ExchangeExpire
    \/ PriceTick

SpecWatch == InitWatch /\ [][NextWatch]_vars

(* Every request of a call that is alive is answered, by its result or by  *)
(* a rejection, and the code that awaits it runs; a timer that was set     *)
(* fires.  Nothing is assumed about the exchange filling or expiring an    *)
(* order, nor about the prices that tick.                                  *)
FairWatch ==
    /\ WF_vars(WatchGetOrder \/ WatchGetOrderFails)
    /\ WF_vars(HandleTakeProfitFindById \/ HandleTakeProfitFindByIdFails)
    /\ WF_vars(HandleTakeProfitSellLimitOrder)
    /\ WF_vars(HandleOrderUpdateFindOne)
    /\ WF_vars(HandleOrderUpdateCreate)
    /\ WF_vars(HandleOrderUpdateUpdateOne)
    /\ WF_vars(HandleCampaignFilledOrderFindById)
    /\ WF_vars(HandleCampaignFilledOrderUpdateOne)
    /\ WF_vars(CreateTradeFind)
    /\ WF_vars(CreateTradeCreate)
    /\ WF_vars(HandleCancelFindById)
    /\ WF_vars(HandleCancelGetBinanceOrder)
    /\ WF_vars(HandleCancelCancelOrder)
    /\ WF_vars(HandleSellFindOne)
    /\ WF_vars(HandleSellSellMarketOrder)

SpecWatchFair == SpecWatch /\ FairWatch

(* The same with a ledger that may reject the campaign update of           *)
(* handleOrderUpdate.  The rejection comes after a new Order record, so    *)
(* there are finitely many of them and the ledger succeeds from then on.   *)
HandleOrderUpdateUpdateOneFails ==
    \E t \in At("hou_update") :
        Apply(handleOrderUpdate_updateOne_fails(Take(W, t), t))

NextUpdateFault ==
    \/ WatchGetOrder
    \/ HandleOrderUpdateFindOne
    \/ HandleOrderUpdateCreate
    \/ HandleOrderUpdateUpdateOne
    \/ HandleOrderUpdateUpdateOneFails
    \/ HandleCampaignFilledOrderFindById
    \/ HandleCampaignFilledOrderUpdateOne
    \/ CreateTradeFind
    \/ CreateTradeCreate
    \/ HandleTakeProfitFindById
    \/ HandleTakeProfitSellLimitOrder
    \/ HandleCancelFindById
    \/ HandleCancelGetBinanceOrder
    \/ HandleCancelCancelOrder
    \/ HandleSellFindOne
    \/ HandleSellSellMarketOrder
    \/ ExchangeFill
    \/ ExchangeExpire
    \/ PriceTick

(* the exchange requests of the watcher are answered here, FairWatch's     *)
(* first two conjuncts with the rejections left out                        *)
FairUpdateFault ==
    /\ FairWatch
    /\ WF_vars(WatchGetOrder)
    /\ WF_vars(HandleTakeProfitFindById)

SpecUpdateFault == InitWatch /\ [][NextUpdateFault]_vars /\ FairUpdateFault

----------------------------------------------------------------------------
(* The bot process started again in the middle of a trade.  The ledger and *)
(* the exchange are as the stopped process left them when no call was in   *)
(* progress: nothing yet (none), the buy of ThePlan resting (buy_placed),  *)
(* the buy filled and applied with its take-profit still to be sent        *)
(* (buy_filled), the take-profit sell resting (sell_placed).  No watcher,  *)
(* listener or Strategy object survives; the first poll of watchCampaigns  *)
(* has started the loop.                                                   *)

RestartPoints == {"none", "buy_placed", "buy_filled", "sell_placed"}

ExchangeAt(p) ==
    CASE p = "none" -> <<>>
      [] p = "buy_placed" -> <<BuyEntry("placed")>>
      [] p = "buy_filled" -> <<BuyEntry("filled")>>
      [] p = "sell_placed" -> <<BuyEntry("filled"), SellEntry("placed", TakeProfit)>>

(* The Order records handleOrderUpdate has written by then *)
OrdersAt(p) ==
    LET placedBuy == getBinanceOrder([exch |-> <<BuyEntry("placed")>>], 1)
        filledBuy == getBinanceOrder([exch |-> <<BuyEntry("filled")>>], 1)
        placedSell == getBinanceOrder([exch |-> ExchangeAt("sell_placed")], 2)
    IN  CASE p = "none" -> {}
          [] p = "buy_placed" -> {placedBuy}
          [] p = "buy_filled" -> {placedBuy, filledBuy}
          [] p = "sell_placed" -> {placedBuy, filledBuy, placedSell}

(* The Campaign document: activeOrder is the newest record, the plan is    *)
(* the one handleBuy stored, the balance is after the filled buy           *)
CampaignAt(p) ==
    LET filledBuy == getBinanceOrder([exch |-> <<BuyEntry("filled")>>], 1)
        activeOrder == getBinanceOrder([exch |-> ExchangeAt(p)], Len(ExchangeAt(p)))
    IN  CASE p = "none" -> TheCampaign
          [] p = "buy_placed" ->
                [TheCampaign EXCEPT !.activeOrder = activeOrder, !.tradePlan = ThePlan]
          [] OTHER ->
                [campaignUpdate(TheCampaign, filledBuy, InitialBalance) EXCEPT
                    !.activeOrder = activeOrder, !.tradePlan = ThePlan]

InitRestart ==
    \E p \in RestartPoints :
        /\ exch = ExchangeAt(p)
        /\ held = IF p \in {"buy_filled", "sell_placed"} THEN BuyEntry("filled").exe ELSE 0
        /\ orders = SetToBag(OrdersAt(p))
        /\ trades = EmptyBag
        /\ events = IF p = "none" THEN EmptyBag ELSE One("buy")
        /\ camp = CampaignAt(p)
        /\ strat = <<>>
        /\ tasks = One(NewTask("loop", "loop_find", 0))
        /\ subs = {}
        /\ fired = <<>>
        /\ applied = SetToBag({r \in OrdersAt(p) : r.status = "filled"})
        /\ ACTIVE_CAMPAIGNS = <<TheCampaign.id>>
        /\ started = 1
        /\ unhandled = FALSE
        /\ out = NoOut
        /\ closed = 0

SpecRestart == InitRestart /\ [][Next]_vars

----------------------------------------------------------------------------
(* The campaign after its first round trip.  The buy of ThePlan was filled *)
(* and its take-profit sell was filled as it was placed; both are applied  *)
(* and the Trade is written.  The stop-loss listener armed for that        *)
(* position is still subscribed, as no price reached its stopLoss; the     *)
(* loop is about to call run() on the same Strategy object.  The two       *)
(* orders of the round trip are counted in closed.                         *)

RoundTrip == <<BuyEntry("filled"), SellEntry("filled", TakeProfit)>>

AfterRoundTrip ==
    LET placedBuy == getBinanceOrder([exch |-> <<BuyEntry("placed")>>], 1)
        filledBuy == getBinanceOrder([exch |-> RoundTrip], 1)
        filledSell == getBinanceOrder([exch |-> RoundTrip], 2)
        bought == campaignUpdate(TheCampaign, filledBuy, InitialBalance)
        strategy == init(NewStrategy, CHOOSE c \in PriorDay : canRun(init(NewStrategy, c)))
    IN  /\ exch = RoundTrip
        /\ held = 0
        /\ orders = SetToBag({placedBuy, filledBuy, filledSell})
        /\ trades = One([cid |-> filledSell.cid,
                         profitLoss |-> filledSell.total - filledBuy.total,
                         expectancy |-> <<>>])
        /\ events = One("buy")
        /\ camp = campaignUpdate(bought, filledSell, bought.balance)
        /\ strat = <<[strategy EXCEPT !.nextAction = setOrderStatus("sell", "filled"),
                                      !.tradePlan = ThePlan]>>
        /\ tasks = One(NewTask("loop", "loop_run", 1))
        /\ subs = {[id |-> 1, st |-> 1, stopLoss |-> ThePlan.stopLoss]}
        /\ fired = <<0>>
        /\ applied = SetToBag({filledBuy, filledSell})
        /\ ACTIVE_CAMPAIGNS = <<TheCampaign.id>>
        /\ started = 1
        /\ unhandled = FALSE
        /\ out = NoOut

InitSecondTrip == AfterRoundTrip /\ closed = Len(RoundTrip)

(* The loop does not start again: its Strategy object is the only one *)
NextSecondTrip ==
    \/ HandleOrderUpdateFindOne
    \/ HandleOrderUpdateCreate
    \/ HandleOrderUpdateUpdateOne
    \/ HandleCampaignFilledOrderFindById
    \/ HandleCampaignFilledOrderUpdateOne
    \/ CreateTradeFind
    \/ CreateTradeCreate
    \/ WatchGetOrder
    \/ HandleTakeProfitFindById
    \/ HandleTakeProfitSellLimitOrder
    \/ HandleBuyFindById
    \/ HandleBuyBuyStopLimitOrder
    \/ HandleBuyUpdateOne
    \/ HandleCancelFindById
    \/ HandleCancelGetBinanceOrder
    \/ HandleCancelCancelOrder
    \/ HandleSellFindOne
    \/ HandleSellSellMarketOrder
    \/ HandleCampaignRun
    \/ HandleCampaignCreateEvent
    \/ ExchangeFill
    \/ ExchangeExpire
    \/ PriceTick

SpecSecondTrip == InitSecondTrip /\ [][NextSecondTrip]_vars

(* The same loop after a round trip that ended in a loss.  The campaign    *)
(* was funded with SmallBalance, enough for one coin at EntryPrice: the    *)
(* buy filled, the watcher placed the take-profit, a price at the stopLoss *)
(* made the listener call handleSell, which cancelled the take-profit and  *)
(* sold at MarketPrice.  handleCampaignFilledOrder computed the balance    *)
(* and with it the status; the Trade record is written and every call but  *)
(* the loop has ended.                                                     *)
SmallBalance == 124

LossTrip ==
    <<[side |-> "buy", type |-> "stop", cid |-> 1, amt |-> 1, price |-> EntryPrice,
       exe |-> 1, status |-> "filled"],
      [side |-> "sell", type |-> "limit", cid |-> 1, amt |-> 1, price |-> TakeProfit,
       exe |-> 0, status |-> "cancelled"],
      [side |-> "sell", type |-> "market", cid |-> 1, amt |-> 1, price |-> MarketPrice,
       exe |-> 1, status |-> "filled"]>>

AfterLoss ==
    LET resting(i) == [LossTrip[i] EXCEPT !.status = "placed", !.exe = 0]
        placedBuy == getBinanceOrder([exch |-> <<resting(1)>>], 1)
        filledBuy == getBinanceOrder([exch |-> LossTrip], 1)
        placedSell == getBinanceOrder([exch |-> <<LossTrip[1], resting(2)>>], 2)
        cancelledSell == getBinanceOrder([exch |-> LossTrip], 2)
        filledSell == getBinanceOrder([exch |-> LossTrip], 3)
        funded == [TheCampaign EXCEPT !.balance = SmallBalance,
                                      !.initialBalance = SmallBalance]
        bought == campaignUpdate(funded, filledBuy, SmallBalance)
        strategy == init(NewStrategy, CHOOSE c \in PriorDay : canRun(init(NewStrategy, c)))
    IN  /\ exch = LossTrip
        /\ held = 0
        /\ orders = SetToBag({placedBuy, filledBuy, placedSell, cancelledSell, filledSell})
        /\ trades = One([cid |-> filledSell.cid,
                         profitLoss |-> filledSell.total - filledBuy.total,
                         expectancy |-> <<>>])
        /\ events = One("buy")
        /\ camp = campaignUpdate(bought, filledSell, bought.balance)
        /\ strat = <<[strategy EXCEPT !.nextAction = setOrderStatus("sell", "filled"),
                                      !.tradePlan = ThePlan]>>
        /\ tasks = One(NewTask("loop", "loop_run", 1))
        /\ subs = {}
        /\ fired = <<1>>
        /\ applied = SetToBag({filledBuy, filledSell})
        /\ ACTIVE_CAMPAIGNS = <<TheCampaign.id>>
        /\ started = 1
        /\ unhandled = FALSE
        /\ out = NoOut

InitAfterLoss == AfterLoss /\ closed = Len(LossTrip)

SpecAfterLoss == InitAfterLoss /\ [][NextSecondTrip]_vars

----------------------------------------------------------------------------
(* Properties *)

(* C1: under every interleaving of handleOrderUpdate calls the ledger      *)
(* never holds two Order records with the same (orderId, clientOrderId,    *)
(* side, status).                                                          *)
C1_NoDuplicateOrder ==
    \A r \in BagToSet(orders) :
        /\ orders[r] = 1
        /\ \A q \in BagToSet(orders) : SameKey(r, q) => r = q

(* C2: the balance/position update of a filled order is written at most    *)
(* once for that order.                                                    *)
C2_BalanceAppliedOnce ==
    \A r \in BagToSet(applied) :
        /\ applied[r] = 1
        /\ \A q \in BagToSet(applied) : q.oid = r.oid => q = r

(* C3: at most one order of the campaign is placed (non-terminal) on the   *)
(* exchange in every reachable state.                                      *)
C3_OnePlacedOrder == Cardinality(OpenOrders) <= 1

(* No call newly waits for one of the requests pcs after the step *)
NoNewTaskAt(pcs) ==
    \A u \in BagToSet(tasks') :
        u.pc \in pcs => u \in BagToSet(tasks) /\ tasks'[u] <= tasks[u]

(* The step adds one task u to the running calls *)
Spawned(u) ==
    /\ u \in BagToSet(tasks')
    /\ tasks'[u] = (IF u \in BagToSet(tasks) THEN tasks[u] ELSE 0) + 1

(* C4: a watcher polling an order that the exchange reports as placed does *)
(* not call handleOrderUpdate; a filled order has exactly one filled Order *)
(* record, and a position (clientOrderId) has one Trade, whichever paths   *)
(* persisted its close.                                                    *)
C4_OneFilledRecordOneTrade ==
    /\ \A t \in At("watch_getOrder") :
          getBinanceOrder(W, t.oid).status = "placed" =>
             LET w2 == watch_getOrder(Take(W, t), t)
             IN  /\ w2.orders = orders /\ w2.camp = camp /\ w2.strat = strat
                 /\ \A u \in BagToSet(w2.tasks) : u.oid = t.oid => u.pc = "watch_getOrder"
    /\ \A r \in BagToSet(orders) :
          r.status = "filled" =>
             /\ orders[r] = 1
             /\ \A q \in BagToSet(orders) :
                   q.status = "filled" /\ q.oid = r.oid => q = r
    /\ \A r \in BagToSet(trades) :
          /\ trades[r] = 1
          /\ \A q \in BagToSet(trades) : q.cid = r.cid => q = r

(* C5: a handleOrderUpdate call that finds the record of its (orderId,     *)
(* clientOrderId, side, status) ends there: it writes no Order or Trade,   *)
(* changes neither the signal state nor the Campaign record, and goes on   *)
(* to none of the later requests of handleOrderUpdate.                     *)
C5_ReplayIsNoOp ==
    [][\A t \in At("hou_find") :
          ((\E r \in BagToSet(orders) : SameKey(r, t.ord))
              /\ Apply(handleOrderUpdate_findOne(Take(W, t), t)))
          => /\ UNCHANGED <<orders, trades, camp, strat, applied, exch, held>>
             /\ NoNewTaskAt({"hou_create", "hou_update", "filled_find",
                             "filled_update", "trade_find", "trade_create"})]_vars

(* Two watchers of the same filled buy are both past handleOrderUpdate and *)
(* the ledger holds one record of it, written once to the balance: the     *)
(* second call was a replay.                                               *)
C5_Witness ==
    \E t \in BagToSet(tasks) :
        /\ t.pc = "tp_find" /\ tasks[t] = 2
        /\ t.ord \in BagToSet(orders) /\ orders[t.ord] = 1
        /\ t.ord \in BagToSet(applied) /\ applied[t.ord] = 1

(* C6: an armed stop-loss listener has not fired; none fires twice; a tick *)
(* at or below its stopLoss unsubscribes it and starts one sell, a tick    *)
(* above its stopLoss changes nothing.                                     *)
C6_StopLossFiresOnce ==
    /\ \A i \in 1..Len(fired) : fired[i] <= 1
    /\ \A s \in subs : fired[s.id] = 0
    /\ \A s \in subs, p \in TickPrices :
          LET w2 == sellOrder(W, s, p)
          IN  IF p <= s.stopLoss
              THEN /\ s \notin w2.subs
                   /\ w2.fired[s.id] = 1
                   /\ BagCardinality(w2.tasks) = BagCardinality(tasks) + 1
              ELSE w2 = W

(* A listener fired and its sell is still running while ticks keep coming *)
C6_Witness ==
    /\ \E i \in 1..Len(fired) : fired[i] = 1
    /\ \E t \in BagToSet(tasks) : t.k = "sell" /\ t.pc = "sell_order"

(* C7: handleSell reading a null activeOrder submits nothing to the        *)
(* exchange, writes no Order or Trade and leaves the Campaign record and   *)
(* the signal state as they are.                                           *)
C7_SellWithoutPositionIsNoOp ==
    [][\A t \in At("sell_find") :
          (camp.activeOrder = NoOrder
              /\ Apply(handleSell_findOne(Take(W, t), t)))
          => /\ UNCHANGED <<exch, held, orders, trades, camp, strat, applied>>
             /\ NoNewTaskAt({"sell_order", "cancel_find", "cancel_getOrder",
                             "cancel_order", "hou_find", "hou_create"})]_vars

(* The take-profit sell was processed as filled (a Trade exists, the       *)
(* activeOrder is null), a stop-loss listener fired afterwards and its     *)
(* sell path has ended without any market order.                           *)
C7_Witness ==
    /\ \E i \in 1..Len(fired) : fired[i] = 1
    /\ camp.activeOrder = NoOrder
    /\ trades # EmptyBag
    /\ \A t \in BagToSet(tasks) : t.k # "sell"
    /\ \A o \in 1..Len(exch) : exch[o].type # "market"

(* C8: handleBuy reading an activeOrder with status placed sends nothing   *)
(* to the exchange, starts one watcher of that order with the payload and  *)
(* returns that order; a buy request is sent only by a handleBuy that read *)
(* an activeOrder that was not placed, as a stop-limit at entryPrice.      *)
C8_BuyReattachesPlacedOrder ==
    [][/\ \A t \in At("buy_find") :
             (camp.activeOrder.status = "placed"
                 /\ Apply(handleBuy_findById(Take(W, t), t)))
             => /\ UNCHANGED <<exch, held, orders, trades, camp, strat>>
                /\ NoNewTaskAt({"buy_order", "buy_plan", "hou_find"})
                /\ Spawned([NewTask("watch", "watch_getOrder", t.st) EXCEPT
                               !.oid = camp.activeOrder.oid, !.pay = t.pay])
                /\ \E u \in BagToSet(tasks') :
                      u.pc = "loop_event" /\ u.ord = camp.activeOrder
       /\ \A t \in At("buy_order") :
             (\E imm \in BOOLEAN :
                 Apply(handleBuy_buyStopLimitOrder(Take(W, t), t, imm)))
             => /\ t.ao.status # "placed"
                /\ Len(exch') = Len(exch) + 1
                /\ exch'[Len(exch')].side = "buy"
                /\ exch'[Len(exch')].type = "stop"
                /\ exch'[Len(exch')].price = t.pay.entryPrice]_vars

(* A second buy action found the first buy still placed in the ledger: the *)
(* exchange has received one request and handleBuy returned that order.    *)
C8_Witness ==
    /\ Len(exch) = 1
    /\ "buy" \in BagToSet(events)
    /\ \E t \in At("loop_event") :
          t.act = "buy" /\ t.ord.oid = 1 /\ t.ord.status = "placed"

(* C9: handleCancel goes on to the cancel request exactly when the         *)
(* exchange reports the active order as placed; otherwise it changes       *)
(* nothing on the exchange, in the ledger or in the signal state and       *)
(* returns what the exchange reported.                                     *)
C9_CancelOnlyWhenPlaced ==
    [][\A t \in At("cancel_getOrder") :
          Apply(handleCancel_getBinanceOrder(Take(W, t), t))
          => IF exch[t.cao.oid].status = "placed"
             THEN Spawned([t EXCEPT !.pc = "cancel_order"])
             ELSE /\ UNCHANGED <<exch, held, orders, trades, camp, strat, applied>>
                  /\ NoNewTaskAt({"cancel_order", "hou_find", "hou_create",
                                  "hou_update"})
                  /\ (t.ret = <<"handleCampaign">> =>
                        \E u \in BagToSet(tasks') :
                           /\ u.pc = "loop_event"
                           /\ u.ord = structureOrder(exch, t.cao.oid))]_vars

(* The cancel_buy action got the exchange's view (filled) back while the   *)
(* ledger still shows the same order as placed                             *)
C9_Witness ==
    \E t \in At("loop_event") :
        /\ t.act = "cancel_buy"
        /\ t.ord.status = "filled"
        /\ camp.activeOrder.status = "placed"
        /\ camp.activeOrder.oid = t.ord.oid

(* C10: the market sell of handleSell, with a placed take-profit sell as   *)
(* active order, is sent after that order is no longer open and is for the *)
(* coins still held; with a filled buy as active order it is for the buy's *)
(* executed amount and handleSell calls no cancel.                         *)
C10_MarketSellsThePosition ==
    [][/\ \A t \in At("sell_order") :
             Apply(handleSell_sellMarketOrder(Take(W, t), t))
             => /\ (t.ao.side = "sell" /\ t.ao.status = "placed") =>
                      /\ exch[t.ao.oid].status # "placed"
                      /\ exch'[Len(exch')].amt = held
                /\ (t.ao.side = "buy" /\ t.ao.status = "filled") =>
                      exch'[Len(exch')].amt = t.ao.exe
       /\ \A t \in At("sell_find") :
             (camp.activeOrder.side = "buy" /\ camp.activeOrder.status = "filled"
                 /\ Apply(handleSell_findOne(Take(W, t), t)))
             => NoNewTaskAt({"cancel_find", "cancel_getOrder", "cancel_order"})]_vars

(* C11: no handleSell attempt is made beyond the fifth, and a failing      *)
(* attempt of the handleSell call that the campaign loop awaits does not   *)
(* let that call complete normally: the loop does not go on to             *)
(* Events.create.                                                          *)
C11_SellErrorReachesCaller ==
    [][/\ \A u \in BagToSet(tasks') :
             u.pc = "sell_find" => u.retry <= SellMaxRetries
       /\ \A t \in At("sell_find") :
             (t.ret # <<>> /\ Apply(handleSell_findOne_fails(Take(W, t), t)))
             => NoNewTaskAt({"loop_event"})]_vars

(* C12: no error of the campaign's execution ends as an unhandled          *)
(* rejection, and once the loop was started it stays scheduled or running. *)
C12_ErrorsAreCaught ==
    /\ ~unhandled
    /\ started > 0 => \E t \in BagToSet(tasks) : t.k = "loop"

(* C13: watchCampaigns calls handleCampaign at most once for the campaign, *)
(* tracks its id once, and at most one loop of the campaign is live.       *)
C13_OneLoopPerCampaign ==
    /\ started <= 1
    /\ Len(ACTIVE_CAMPAIGNS) = started
    /\ \A t, u \in BagToSet(tasks) :
          t.k = "loop" /\ u.k = "loop" => t = u /\ tasks[t] = 1

(* The strategy of the first iteration is done and the loop, started once  *)
(* by the coordinator, has restarted itself and read the campaign again    *)
C13_Witness ==
    /\ started = 1
    /\ Len(strat) = 1 /\ strat[1].done
    /\ At("loop_init") # {}

(* C14: whatever state the engine is in, setOrderStatus with one of the    *)
(* six valid pairs does not throw and leaves the engine in the state of    *)
(* that pair: buy+placed wait_for_entry, buy+filled wait_for_sell_order,   *)
(* buy+cancelled wait_buy_signal, sell+placed and sell+cancelled           *)
(* wait_for_exit, sell+filled wait_buy_signal.                             *)
C14_SetOrderStatusMapping ==
    (/\ out.op = "setOrderStatus"
     /\ out.side \in {"buy", "sell"}
     /\ out.status \in {"placed", "filled", "cancelled"})
    => /\ out.action = "ok"
       /\ strat[1].nextAction =
             CASE out.side = "buy" /\ out.status = "placed" -> "wait_for_entry"
               [] out.side = "buy" /\ out.status = "filled" -> "wait_for_sell_order"
               [] out.side = "buy" /\ out.status = "cancelled" -> "wait_buy_signal"
               [] out.side = "sell" /\ out.status = "placed" -> "wait_for_exit"
               [] out.side = "sell" /\ out.status = "cancelled" -> "wait_for_exit"
               [] out.side = "sell" /\ out.status = "filled" -> "wait_buy_signal"

(* A cancelled sell reported while the engine waited for the sell order *)
C14_Witness ==
    /\ out.op = "setOrderStatus" /\ out.side = "sell" /\ out.status = "cancelled"
    /\ out.was = "wait_for_sell_order"
    /\ strat[1].nextAction = "wait_for_exit"

(* C15: setOrderStatus with a pair that is not one of the six valid pairs  *)
(* (side not buy or sell, status not placed, filled or cancelled, or one   *)
(* of them missing) throws and leaves the signal state as it was.          *)
C15_InvalidPairRaises ==
    (/\ out.op = "setOrderStatus"
     /\ \/ out.side \notin {"buy", "sell"}
        \/ out.status \notin {"placed", "filled", "cancelled"})
    => /\ out.action = "error"
       /\ strat[1].nextAction = out.was

(* C16: canRun() is the negation of done, and no call of run() or          *)
(* setOrderStatus makes a strategy that is done runnable again.            *)
C16_DoneIsTerminal ==
    [][\A i \in 1..Len(strat) :
          /\ canRun(strat[i]) <=> ~strat[i].done
          /\ ~canRun(strat[i]) => i <= Len(strat') /\ ~canRun(strat'[i])]_vars

(* run() ended the day while waiting for the entry, and the cancel of the  *)
(* buy was reported to the strategy afterwards                             *)
C16_Witness ==
    /\ strat[1].done
    /\ out.op = "setOrderStatus" /\ out.action = "ok"
    /\ out.was = "wait_for_entry" /\ strat[1].nextAction = "wait_buy_signal"

(* C17: run() returns buy only in state wait_buy_signal, with the current  *)
(* RSI strictly between 35 and 60, RSI - SMA above 0.5 on the current      *)
(* candle and not above 0.5 on the previous one.                           *)
C17_BuyOnlyOnCrossover ==
    (out.op = "run" /\ out.action = "buy")
    => /\ out.was = "wait_buy_signal"
       /\ out.feed.rsi > RSI_LOWER_BAND /\ out.feed.rsi < RSI_UPPER_BAND
       /\ out.feed.rsi - out.feed.sma > CROSS_OVER_THRESHOLD
       /\ ~(out.feed.prevRsi - out.feed.prevSma > CROSS_OVER_THRESHOLD)

(* A buy on an RSI one tenth inside the upper band *)
C17_Witness ==
    /\ out.op = "run" /\ out.action = "buy"
    /\ out.feed.rsi = RSI_UPPER_BAND - 1
    /\ strat[1].nextAction = "wait_for_entry"

(* C18: in state wait_buy_signal in trading time, with the RSI in the      *)
(* band, the crossover, high + one tick strictly between support + tick    *)
(* and resistance - tick and a possible profit above 0.5 %, run() returns  *)
(* buy with entryPrice = high + one tick and takeProfit = resistance - one *)
(* tick and leaves the engine in wait_for_entry.                           *)
C18_BuyPlanPrices ==
    (/\ out.op = "run" /\ out.was = "wait_buy_signal" /\ out.feed.phase = "trade"
     /\ rsiInRange(out.feed) /\ rsiCrossedOver(out.feed)
     /\ out.feed.high + 1 > out.feed.support + 1
     /\ out.feed.high + 1 < out.feed.resistance - 1
     /\ possibleProfit(out.feed) > MINIMUM_PROFIT)
    => /\ out.action = "buy"
       /\ out.plan.entryPrice = out.feed.high + 1
       /\ out.plan.takeProfit = out.feed.resistance - 1
       /\ strat[1].nextAction = "wait_for_entry"

(* C19: the plan of every buy that run() returns has                       *)
(* stopLoss < entryPrice < takeProfit.                                     *)
C19_PlanIsOrdered ==
    (out.op = "run" /\ out.action = "buy")
    => /\ out.plan.stopLoss < out.plan.entryPrice
       /\ out.plan.entryPrice < out.plan.takeProfit

(* C20: every Trade has the profitLoss total(filled sell) - total(filled   *)
(* buy) of the orders with its clientOrderId, and a clientOrderId has one  *)
(* Trade.                                                                  *)
C20_OneTradeWithProfitLoss ==
    \A r \in BagToSet(trades) :
        /\ \E so \in Matching(W, r.cid, "sell"), bo \in Matching(W, r.cid, "buy") :
              r.profitLoss = so.total - bo.total
        /\ trades[r] = 1
        /\ \A q \in BagToSet(trades) : q.cid = r.cid => q = r

(* C21: with at least one prior trade of the campaign, the expectancy      *)
(* stored on a new Trade is winRate * avgWin - (1 - winRate) * avgLoss     *)
(* over exactly the prior trades, with avgLoss the magnitude of the        *)
(* average loss, also when the prior trades are all wins or all losses.    *)
(* That value is the mean profitLoss of the prior trades; the stored value *)
(* is in hundredths and rounded, profitLoss is in tenths.                  *)
C21_ExpectancyOfPriorTrades ==
    [][\A t \in At("trade_create") :
        (trades # EmptyBag /\ Apply(createTrade_create(Take(W, t), t))) =>
            \E r \in BagToSet(trades') :
                /\ r.cid = t.ord.cid
                /\ r.expectancy # <<>>
                /\ LET n == BagCardinality(trades)
                       d == n * r.expectancy[1] - 10 * sum(trades, BagToSet(trades))
                   IN  2 * d <= n /\ -2 * d <= n]_vars

(* C22: when the update of a filled sell is written, the campaign status   *)
(* becomes inactive exactly when the new balance, the old balance plus the *)
(* total of the sell, is below 10.5 (10.4 inactive, 10.5 active); the      *)
(* update of a filled buy leaves the status as it is.                      *)
C22_InactiveBelowMinimum ==
    [][\A t \in At("filled_update") :
        Apply(handleCampaignFilledOrder_updateOne(Take(W, t), t)) =>
            IF t.ord.side = "sell"
            THEN /\ camp'.balance = camp.balance + t.ord.total
                 /\ camp'.status = "inactive" <=> camp.balance + t.ord.total < 105
            ELSE camp'.status = camp.status]_vars

(* A filled sell left the balance at 10.4 and the campaign inactive *)
C22_Witness ==
    /\ camp.status = "inactive"
    /\ camp.balance = 104
    /\ \E r \in BagToSet(applied) : r.side = "sell" /\ r.status = "filled"

(* C23: when handleOrderUpdate has completed for an order it persisted,    *)
(* the campaign's activeOrder is null exactly when the order is a          *)
(* cancelled buy or a filled sell, and tradePlan is null in these cases;   *)
(* after a placed buy, a filled buy or a placed sell activeOrder is that   *)
(* order; a cancelled sell leaves activeOrder as it was.                   *)
C23_ActiveOrderAfterUpdate ==
    tasks = EmptyBag =>
        LET x == [exch |-> exch, rejected |-> exch[Len(exch)].status = "rejected"]
            o == UpdateOf(x)
            persisted == \E r \in BagToSet(orders) : r = o
        IN  /\ persisted
            /\ CASE (o.side = "buy" /\ o.status = "cancelled")
                      \/ (o.side = "sell" /\ o.status = "filled") ->
                        camp.activeOrder = NoOrder /\ camp.tradePlan = NullPlan
                 [] o.status = "placed" \/ (o.side = "buy" /\ o.status = "filled") ->
                        camp.activeOrder = o /\ camp.tradePlan = ThePlan
                 [] OTHER ->
                        /\ camp.activeOrder = ActiveBefore(x)
                        /\ camp.activeOrder # NoOrder
                        /\ camp.tradePlan = ThePlan

(* handleOrderUpdate completed for a cancelled sell and the placed sell is *)
(* still the active order                                                  *)
C23_Witness ==
    /\ tasks = EmptyBag
    /\ \E r \in BagToSet(orders) : r.side = "sell" /\ r.status = "cancelled"
    /\ camp.activeOrder.side = "sell" /\ camp.activeOrder.status = "placed"

(* C24: init() on a candle of the prior day with close >= open and         *)
(* (high - low) / high * 100 > 2 sets support to the candle's low and      *)
(* resistance to its high and leaves canRun() true; on every other candle  *)
(* it sets done with the reason 'No bullish candle', canRun() is false and *)
(* support and resistance stay null.                                       *)
C24_InitOnBullishCandle ==
    out.op = "init" =>
        LET c == out.candle
            s == strat[1]
        IN  IF c.close >= c.open /\ 100 * (c.high - c.low) > 2 * c.high
            THEN /\ s.support = c.low
                 /\ s.resistance = c.high
                 /\ canRun(s)
                 /\ s.reason = "null"
            ELSE /\ s.done
                 /\ s.reason = "No bullish candle"
                 /\ ~canRun(s)
                 /\ s.support = -1
                 /\ s.resistance = -1

(* init() ran on the candle with low 100 and high 110 *)
C24_Witness ==
    /\ out.op = "init"
    /\ out.candle.low = 1000 /\ out.candle.high = 1100
    /\ strat[1].support = 1000 /\ strat[1].resistance = 1100
    /\ canRun(strat[1])

(* C25: once a watcher has read its buy order as filled, the exchange      *)
(* eventually holds a limit sell at the plan's takeProfit and a stop-loss  *)
(* listener has been armed, whatever becomes of the take-profit.           *)
C25_FilledBuyGetsBothExits ==
    (\E t \in BagToSet(tasks) :
        t.k = "watch" /\ t.ord.side = "buy" /\ t.ord.status = "filled")
    ~> (/\ \E e \in 1..Len(exch) :
               /\ exch[e].side = "sell" /\ exch[e].type = "limit"
               /\ exch[e].price = ThePlan.takeProfit
               /\ exch[e].status # "rejected"
        /\ Len(fired) >= 1)

(* C26: a poll of the watcher that fails (the request for the order, or    *)
(* the ledger read of the take-profit it awaits, rejects) changes nothing  *)
(* but the calls alive: while retry < 10 the watcher is replaced by one    *)
(* next attempt on the same order with retry + 1, and the 10th failed      *)
(* attempt in a row ends the watcher with no attempt scheduled.  A poll    *)
(* that reads a resting order schedules the next poll with retry = 1.  A   *)
(* watcher that read a filled or cancelled order schedules no poll of that *)
(* order in any step that it takes without failing.                        *)
C26_WatcherRetriesThenStops ==
    [][/\ \A t \in At("watch_getOrder") \cup {u \in At("tp_find") : u.k = "watch"} :
            LET w == IF t.pc = "tp_find"
                     THEN handleTakeProfit_findById_fails(Take(W, t), t)
                     ELSE watch_getOrder_fails(Take(W, t), t)
                again == [NewTask("watch", "watch_getOrder", t.st) EXCEPT
                             !.oid = t.oid, !.pay = t.pay, !.retry = t.retry + 1]
            IN  Apply(w) =>
                    /\ UNCHANGED <<exch, held, orders, trades, events, camp, strat,
                                   subs, fired, applied, unhandled>>
                    /\ tasks' = IF t.retry < WatchMaxRetries
                                THEN (tasks (-) One(t)) (+) One(again)
                                ELSE tasks (-) One(t)
       /\ \A t \in At("watch_getOrder") :
            (/\ getBinanceOrder(W, t.oid).status \notin {"filled", "cancelled"}
             /\ Apply(watch_getOrder(Take(W, t), t))) =>
                tasks' = (tasks (-) One(t)) (+) One([t EXCEPT !.retry = 1])
       /\ \A t \in {u \in BagToSet(tasks) : u.k = "watch"} :
            LET w == Take(W, t)
                steps ==
                    CASE t.pc = "watch_getOrder" ->
                             IF getBinanceOrder(W, t.oid).status \in {"filled", "cancelled"}
                             THEN {watch_getOrder(w, t)} ELSE {}
                      [] t.pc = "hou_find" -> {handleOrderUpdate_findOne(w, t)}
                      [] t.pc = "hou_create" -> {handleOrderUpdate_create(w, t)}
                      [] t.pc = "hou_update" -> {handleOrderUpdate_updateOne(w, t)}
                      [] t.pc = "filled_find" ->
                             {handleCampaignFilledOrder_findById(w, t)}
                      [] t.pc = "filled_update" ->
                             {handleCampaignFilledOrder_updateOne(w, t)}
                      [] t.pc = "trade_find" -> {createTrade_find(w, t)}
                      [] t.pc = "trade_create" -> {createTrade_create(w, t)}
                      [] t.pc = "tp_find" -> {handleTakeProfit_findById(w, t)}
                      [] t.pc = "tp_order" ->
                             {handleTakeProfit_sellLimitOrder(w, t, imm) :
                                  imm \in BOOLEAN}
                      [] OTHER -> {}
            IN  \A s \in steps :
                    Apply(s) =>
                        \A u \in BagToSet(tasks') :
                            u.pc = "watch_getOrder" /\ u.oid = t.oid =>
                                u \in BagToSet(tasks) /\ tasks'[u] <= tasks[u]
      ]_vars

(* The buy still rests on the exchange and no watcher is left: the 10th    *)
(* attempt in a row has failed                                              *)
C26_Witness ==
    /\ exch[1].status = "placed"
    /\ \A t \in BagToSet(tasks) : t.k # "watch"

(* C27: handleTakeProfit places no exchange order when the campaign's     *)
(* active order is a placed sell: it only starts a watcher on that order.  *)
(* Otherwise it sends exactly one limit sell at takeProfit for the buy's   *)
(* executed amount under the buy's clientOrderId, hands the result to      *)
(* handleOrderUpdate, and while that call runs and when it returns a       *)
(* watcher on the sell is started exactly when handleOrderUpdate has       *)
(* returned and the sell's status is placed.                               *)
C27_TakeProfitPlacesOneSell ==
    [][/\ \A t \in At("tp_find") :
            Apply(handleTakeProfit_findById(Take(W, t), t)) =>
                LET a == camp.activeOrder
                IN  /\ UNCHANGED <<exch, held, orders, trades, camp, strat>>
                    /\ IF a.status = "placed" /\ a.side = "sell"
                       THEN /\ Spawned([NewTask("watch", "watch_getOrder", t.st)
                                           EXCEPT !.oid = a.oid])
                            /\ NoNewTaskAt({"tp_order", "hou_find"})
                       ELSE /\ Spawned([t EXCEPT !.pc = "tp_order"])
                            /\ NoNewTaskAt({"watch_getOrder", "hou_find"})
       /\ \A t \in At("tp_order") :
            (\E imm \in BOOLEAN :
                Apply(handleTakeProfit_sellLimitOrder(Take(W, t), t, imm))) =>
                /\ Len(exch') = Len(exch) + 1
                /\ SubSeq(exch', 1, Len(exch)) = exch
                /\ LET e == exch'[Len(exch')]
                   IN  /\ e.side = "sell" /\ e.type = "limit"
                       /\ e.price = t.pay.takeProfit
                       /\ e.amt = t.ord.exe
                       /\ e.cid = t.ord.cid
                /\ \E u \in BagToSet(tasks') :
                       /\ u.pc = "hou_find"
                       /\ u.ret = <<"handleTakeProfit">> \o t.ret
                       /\ u.ord.side = "sell" /\ u.ord.cid = t.ord.cid
                       /\ \/ u.ord.status = "cancelled" /\ u.ord.oid = 0
                          \/ u.ord = structureOrder(exch', Len(exch'))
                       /\ Spawned(u)
                /\ NoNewTaskAt({"watch_getOrder", "tp_order"})
       /\ \A t \in BagToSet(tasks) :
            LET w == Take(W, t)
                step == CASE t.pc = "hou_find" -> handleOrderUpdate_findOne(w, t)
                          [] t.pc = "hou_create" -> handleOrderUpdate_create(w, t)
                          [] t.pc = "hou_update" -> handleOrderUpdate_updateOne(w, t)
                          [] t.pc = "filled_find" ->
                                 handleCampaignFilledOrder_findById(w, t)
                          [] t.pc = "filled_update" ->
                                 handleCampaignFilledOrder_updateOne(w, t)
                          [] t.pc = "trade_find" -> createTrade_find(w, t)
                          [] t.pc = "trade_create" -> createTrade_create(w, t)
                          [] OTHER -> W
                watcher == [NewTask("watch", "watch_getOrder", t.st)
                               EXCEPT !.oid = t.ord.oid]
                returned == \A u \in BagToSet(tasks') :
                                u.ret = t.ret /\ u.ord = t.ord =>
                                    u \in BagToSet(tasks) /\ tasks'[u] <= tasks[u]
            IN  (/\ t.pc \in {"hou_find", "hou_create", "hou_update", "filled_find",
                              "filled_update", "trade_find", "trade_create"}
                 /\ t.ret # <<>> /\ Head(t.ret) = "handleTakeProfit"
                 /\ Apply(step)) =>
                    IF returned /\ t.ord.status = "placed"
                    THEN Spawned(watcher) /\ exch' = exch
                    ELSE NoNewTaskAt({"watch_getOrder"}) /\ exch' = exch
      ]_vars

(* A take-profit call reads a campaign whose active order is a placed sell *)
(* while a limit sell at its takeProfit is already on the exchange         *)
C27_Witness ==
    \E t \in At("tp_find") :
        /\ camp.activeOrder.status = "placed"
        /\ camp.activeOrder.side = "sell"
        /\ \E e \in 1..Len(exch) :
               exch[e].side = "sell" /\ exch[e].type = "limit"
                   /\ exch[e].price = t.pay.takeProfit

(* C28: run() called past the warm-up when the end time is reached sets    *)
(* done and returns cancel_buy in state wait_for_entry, sell in the states *)
(* wait_for_sell_order and wait_for_exit and end in every other state,     *)
(* each with the reason end_of_day; so a strategy in a state with an open  *)
(* order or position is never done by run() without an exit action.        *)
C28_EndOfDayForcesExit ==
    /\ (out.op = "run" /\ out.feed.phase = "eod") =>
          /\ strat[1].done
          /\ out.reason = "end_of_day"
          /\ out.action = CASE out.was = "wait_for_entry" -> "cancel_buy"
                            [] out.was = "wait_for_sell_order" -> "sell"
                            [] out.was = "wait_for_exit" -> "sell"
                            [] OTHER -> "end"
    /\ (out.op = "run" /\ strat[1].done
          /\ out.was \in {"wait_for_entry", "wait_for_sell_order", "wait_for_exit"}) =>
          out.action \in {"cancel_buy", "sell"}

(* run() reached the end time while waiting for the exit and returned sell *)
C28_Witness ==
    /\ out.op = "run" /\ out.feed.phase = "eod"
    /\ out.was = "wait_for_exit" /\ out.action = "sell"
    /\ strat[1].done

C30_CancelOnPlanBreach ==
    [][(out'.op = "run" /\ out'.was = "wait_for_entry" /\ out'.feed.phase = "trade") =>
        LET f == out'.feed
            p == strat[1].tradePlan
            stopLoss == IF p.stopLoss = -1 THEN 0 ELSE p.stopLoss
            takeProfit == IF p.takeProfit = -1 THEN 0 ELSE p.takeProfit
        IN  IF f.low <= stopLoss \/ f.high >= takeProfit
            THEN /\ out'.action = "cancel_buy"
                 /\ strat' = [strat EXCEPT ![1].nextAction = "wait_buy_signal"]
            ELSE /\ out'.action = "wait_for_entry"
                 /\ strat' = strat]_vars

(* run() cancelled the entry because the candle's high reached the take-   *)
(* profit price of the plan                                                *)
C30_Witness ==
    /\ out.op = "run" /\ out.was = "wait_for_entry" /\ out.feed.phase = "trade"
    /\ out.action = "cancel_buy" /\ out.reason = "take_profit_reached"
    /\ strat[1].nextAction = "wait_buy_signal"
    /\ strat[1].tradePlan.takeProfit > 0
    /\ out.feed.high = strat[1].tradePlan.takeProfit
    /\ out.feed.low > strat[1].tradePlan.stopLoss

(* C31: the Events of the campaign only grow, and by one record at a time: *)
(* the only step that changes them is the loop's Events.create, which adds *)
(* one Event carrying the action of the run() call, and that action is     *)
(* buy, cancel_buy or sell.  The loop comes to Events.create exactly when  *)
(* the handler it awaited for such an action has returned; a run() with    *)
(* any other action leaves the Events alone and goes on to the next candle *)
(* or to the end of the campaign.                                          *)
C31_OneEventPerHandledAction ==
    [][LET actionsToSave == {"buy", "cancel_buy", "sell"}
       IN  /\ events' # events =>
                \E t \in At("loop_event") :
                    /\ Apply(handleCampaign_createEvent(Take(W, t), t))
                    /\ t.act \in actionsToSave
                    /\ events' = events (+) One(t.act)
           /\ \A t \in At("loop_event") :
                Apply(handleCampaign_createEvent(Take(W, t), t)) =>
                    /\ events' = events (+) One(t.act)
                    /\ NoNewTaskAt({"loop_event"})
           /\ \A t \in At("loop_run") :
                \A phase \in {"warmup", "trade", "eod"}, sig \in BOOLEAN :
                    Apply(handleCampaign_run(Take(W, t), t, phase, sig)) =>
                        LET action == run(strat[t.st], phase, sig, ThePlan).action
                        IN  /\ events' = events
                            /\ NoNewTaskAt({"loop_event"})
                            /\ action \in actionsToSave <=>
                                   \E u \in BagToSet(tasks') :
                                       /\ u.k = "loop" /\ u.act = action
                                       /\ u.ret = <<"handleCampaign">>
           /\ \A u \in BagToSet(tasks') :
                u.pc = "loop_event" /\ u \notin BagToSet(tasks) =>
                    /\ u.act \in actionsToSave
                    /\ \E t \in BagToSet(tasks) :
                           /\ t.k = "loop" /\ t.ret # <<>> /\ t.act = u.act
                           /\ t \notin BagToSet(tasks')
           /\ \A t \in BagToSet(tasks) :
                (/\ t.k = "loop" /\ t.ret # <<>> /\ t \notin BagToSet(tasks')
                 /\ \A u \in BagToSet(tasks') :
                        u.k = "loop" => u.ret = <<>> /\ u.pc # "loop_find") =>
                    \E u \in BagToSet(tasks') :
                        u.pc = "loop_event" /\ u.act = t.act
      ]_vars

(* The loop has written the Event of a buy and the Event of the sell that  *)
(* run() asked for at the end time                                         *)
C31_Witness ==
    /\ events = One("buy") (+) One("sell")
    /\ \E o \in 1..Len(exch) : exch[o].type = "market"
    /\ \A t \in BagToSet(tasks) : t.k = "loop" => t.pc # "loop_event"

C33_TerminalBuyStaysTerminal ==
    [][\A o \in 1..Len(exch) :
          (/\ exch[o].side = "buy"
           /\ \E r \in BagToSet(orders) :
                  /\ r.oid = o /\ r.status \in {"filled", "cancelled"}
                  /\ \A t \in BagToSet(tasks) :
                         t.ord = r =>
                             t.pc \notin {"hou_find", "hou_create", "hou_update",
                                          "filled_find", "filled_update"}) =>
              /\ (camp'.activeOrder.oid = o /\ camp'.activeOrder.status = "placed")
                     => camp'.activeOrder = camp.activeOrder
              /\ \A t \in At("hou_create") :
                     (/\ t.ord.oid = o /\ t.ord.status = "placed"
                      /\ Apply(handleOrderUpdate_create(Take(W, t), t))) =>
                         strat'[t.st].nextAction = strat[t.st].nextAction
      ]_vars

(* C34: after the first position was closed by its take-profit, a market   *)
(* sell that carries the clientOrderId of a later order is on the exchange *)
(* only if a listener armed after the first one has fired, or run() asked  *)
(* the loop for a sell: the listener of the closed position causes none.   *)
C34_OldListenerSellsNothingNew ==
    \A o \in 1..Len(exch) :
        (exch[o].type = "market" /\ exch[o].cid > closed) =>
            \/ \E i \in 2..Len(fired) : fired[i] > 0
            \/ \E t \in BagToSet(tasks) : t.k = "loop" /\ t.act = "sell"
            \/ BagIn("sell", events)

(* C35: at any time the campaign has at most one armed stop-loss listener, *)
(* and for each order of the exchange at most one watcher call is alive.   *)
C35_NoDuplicateWatchers ==
    /\ Cardinality(subs) <= 1
    /\ \A o \in 1..Len(exch) :
           BagCardinality([t \in {u \in BagToSet(tasks) : u.k = "watch" /\ u.oid = o}
                              |-> tasks[t]]) <= 1

(* C36: whenever the ledger holds the Order record of a filled order, the  *)
(* balance update of that order is eventually written to the campaign,     *)
(* also when the campaign update that follows the record was rejected and  *)
(* the caller came back with the same order.                               *)
C36_FilledRecordGetsApplied ==
    \A o \in 1..MaxOrders :
        (\E r \in BagToSet(orders) : r.oid = o /\ r.status = "filled")
        ~> (\E r \in BagToSet(applied) : r.oid = o /\ r.status = "filled")

(* C37: while the campaign's loop keeps running, once an order has reached *)
(* a terminal status on the exchange the campaign's activeOrder does not   *)
(* show that order as placed for ever.                                     *)
C37_FinishedOrderLeavesPlaced ==
    ([]<>(At("loop_run") # {}))
    => \A o \in 1..MaxOrders :
           (o <= Len(exch) /\ exch[o].status \in {"filled", "cancelled"})
           ~> ~(camp.activeOrder.oid = o /\ camp.activeOrder.status = "placed")

(* C38: handleSell submits no market sell when the campaign's active order *)
(* was a placed take-profit sell that the exchange has filled, the case in *)
(* which its handleCancel found the order no longer open.                  *)
C38_NoMarketSellAfterTakeProfitFilled ==
    [][\A t \in At("sell_order") :
           Apply(handleSell_sellMarketOrder(Take(W, t), t))
           => ~(t.ao.side = "sell" /\ t.ao.status = "placed"
                  /\ exch[t.ao.oid].status = "filled")]_vars

(* C39: while the campaign's status is inactive, handleBuy sends no buy    *)
(* order to the exchange.                                                  *)
C39_InactiveCampaignBuysNothing ==
    [][camp.status = "inactive"
       => \A t \in At("buy_order"), imm \in BOOLEAN :
              ~Apply(handleBuy_buyStopLimitOrder(Take(W, t), t, imm))]_vars

(* C40: whenever the campaign holds no coins and no order update is being  *)
(* processed, its balance is initialBalance plus the profitLoss of all     *)
(* Trade records, and its profitLoss is balance minus initialBalance.      *)
C40_BalanceIsInitialPlusTrades ==
    (/\ camp.coinAmount = 0
     /\ \A t \in BagToSet(tasks) :
            t.pc \notin {"hou_find", "hou_create", "hou_update", "filled_find",
                         "filled_update", "trade_find", "trade_create"})
    => /\ camp.balance = camp.initialBalance + sum(trades, BagToSet(trades))
       /\ camp.profitLoss = camp.balance - camp.initialBalance

====
